---------------------------- MODULE Spec2Model ----------------------------
(***************************************************************************)
(* Undoable file-operation log (HistoryManager), the file mutator          *)
(* (FileSystemService) and the size decision of the generation planner     *)
(* (AICodeGeneratorService._generateProjectStructure).                      *)
(*                                                                         *)
(* The extension host runs JavaScript on one thread: the code between two  *)
(* awaits is atomic, and every await of a storage call is a point where    *)
(* another pending call chain (the webview panel's use case, the           *)
(* generateComponent command, an undo command) may run.  One action below  *)
(* is one such atomic piece: the awaited storage call takes effect and the *)
(* continuation runs up to the next await.                                 *)
(***************************************************************************)
EXTENDS Naturals, Sequences, FiniteSets

VARIABLES
    fs,              \* storage: file path -> bytes held, or Absent
    dirs,            \* storage: the directories that exist (besides the root)
    operations,      \* HistoryManager._operations
    pc,              \* per caller: the await a mutator call is suspended at
    arg,             \* per caller: filePath and content of the running call
    existingContent, \* per caller: the bytes read for the undo snapshot
    result,          \* per caller: outcome of the last mutator call
    calls,           \* number of mutator calls started so far
    pendingUndo,     \* entries popped by undo() whose reversal is awaited
    notification,    \* last message shown by HistoryManager.undo
    reversalOutcome, \* how the last awaited lastOperation.undo() settled
    history,         \* ghost: every entry handed to recordOperation, in order
    seed,            \* input of the record-only specification
    descLen,         \* description.length of a generation request
    strategy,        \* strategy chosen by _generateProjectStructure
    config,          \* the fintonlabs settings: apiKey, model, maxTokens
    openai,          \* AICodeGeneratorService._openai is a client, not null
    gen,             \* the use case the panel or a command is running
    attempts,        \* completion calls the running use case has made
    sent,            \* number of requests that reached the completion service
    outstanding      \* the completion requests awaiting their response

vars == <<fs, dirs, operations, pc, arg, existingContent, result, calls,
          pendingUndo, notification, reversalOutcome, history, seed,
          descLen, strategy, config, openai, gen, attempts, sent,
          outstanding>>

-----------------------------------------------------------------------------
(* Bounds of the model *)

MaxCalls == 2

MaxRecords == 103

MaxDescLen == 5000

-----------------------------------------------------------------------------
(* Values *)

Absent == "absent"

NoBytes == "none"

Paths == {"a.txt", "b/c.txt"}

Strings == {"hello", "world"}

\* Buffer.from(content, 'utf8'): the bytes of a string, written in hex
Utf8(s) ==
    CASE s = "hello" -> "68656c6c6f"
      [] s = "world" -> "776f726c64"
      [] s = "" -> ""
      [] s = "// Failed to generate content for this file: Error: Error calling AI API: OpenAI client not initialized"
           -> "2f2f204661696c656420746f2067656e657261746520636f6e74656e7420666f7220746869732066696c653a204572726f723a204572726f722063616c6c696e67204149204150493a204f70656e414920636c69656e74206e6f7420696e697469616c697a6564"
      [] s = "// Failed to generate content for this file: Error: Error calling AI API: Request failed"
           -> "2f2f204661696c656420746f2067656e657261746520636f6e74656e7420666f7220746869732066696c653a204572726f723a204572726f722063616c6c696e67204149204150493a2052657175657374206661696c6564"

Bytes == {Utf8(s) : s \in Strings}

\* path.dirname(filePath)
Dirname(p) == IF p = "b/c.txt" THEN "b" ELSE "."

\* the panel runs generateApplication / updateApplication (createFile,
\* updateFile, deleteFile); the generateComponent command calls createFile
Callers == {"panel", "command"}

MutatorsOf(t) ==
    IF t = "panel" THEN {"create", "update", "delete"} ELSE {"create"}

NoArg == [path |-> "none", content |-> "none"]

-----------------------------------------------------------------------------
(* Log entries: FileCreateOperation(path), FileUpdateOperation(path, prev), *)
(* FileDeleteOperation(path, prev)                                          *)

FileCreateOperation(p) == [kind |-> "create", path |-> p, prior |-> NoBytes]

FileUpdateOperation(p, prev) == [kind |-> "update", path |-> p, prior |-> prev]

FileDeleteOperation(p, prev) == [kind |-> "delete", path |-> p, prior |-> prev]

maxHistorySize == 100

Front(s) == SubSeq(s, 1, Len(s) - 1)

Last(s) == s[Len(s)]

\* recordOperation with pop() in place of shift(): the newest entry is dropped
RecordOperationDropsNewest(log, op) ==
    LET pushed == Append(log, op)
    IN  IF Len(pushed) > maxHistorySize THEN Front(pushed) ELSE pushed

\* HistoryManager.recordOperation: push, then shift while over the limit
RecordOperation(log, op) ==
    LET pushed == Append(log, op)
    IN  IF Len(pushed) > maxHistorySize THEN Tail(pushed) ELSE pushed

\* undo with shift() in place of pop(): the oldest entry is handed out
PopEntryOldest(log) == Head(log)

\* the entry _operations.pop() returns and the array it leaves
PopEntry(log) == Last(log)

\* pop() taking the oldest entry away instead of the newest
PopRestDropsOldest(log) == Tail(log)

PopRest(log) == Front(log)

-----------------------------------------------------------------------------
(* Storage, as vscode.workspace.fs behaves *)

\* fs.stat resolves exactly when the path exists; readFile, writeFile,
\* delete and createDirectory may also reject for a reason of their own
DirExists(d) == d = "." \/ d \in dirs

\* fileExists: the stat of a file path, or of a directory path
FileExists(p) == IF p \in Paths THEN fs[p] # Absent ELSE DirExists(p)

StorageOK ==
    \A p \in Paths : fs[p] # Absent => DirExists(Dirname(p))


-----------------------------------------------------------------------------
(* FileSystemService: createFile, updateFile, deleteFile *)

Finish(t, r) ==
    /\ pc' = [pc EXCEPT ![t] = "idle"]
    /\ result' = [result EXCEPT ![t] = r]
    /\ arg' = [arg EXCEPT ![t] = NoArg]
    /\ existingContent' = [existingContent EXCEPT ![t] = NoBytes]

Goto(t, label) ==
    /\ pc' = [pc EXCEPT ![t] = label]
    /\ UNCHANGED <<result, arg, existingContent>>

\* this._historyManager.recordOperation(op)
Record(op) == operations' = RecordOperation(operations, op)

NoRecord == UNCHANGED operations

UndoIdle == UNCHANGED <<pendingUndo, notification, reversalOutcome>>

GeneratorIdle ==
    UNCHANGED <<config, openai, gen, attempts, sent, outstanding>>

OtherIdle == GeneratorIdle /\ UNCHANGED <<history, seed, descLen, strategy>>

\* a caller enters a mutator and suspends at its first await
CallMutator(t, kind, p, c) ==
    /\ pc[t] = "idle"
    /\ calls < MaxCalls
    /\ kind \in MutatorsOf(t)
    /\ pc' = [pc EXCEPT ![t] =
                CASE kind = "create" -> "cf_ensureDirectory"
                  [] kind = "update" -> "uf_fileExists"
                  [] OTHER -> "df_fileExists"]
    /\ arg' = [arg EXCEPT ![t] =
                [path |-> p, content |-> IF kind = "delete" THEN "none" ELSE c]]
    /\ result' = [result EXCEPT ![t] = "pending"]
    /\ calls' = calls + 1
    /\ NoRecord /\ UndoIdle /\ OtherIdle
    /\ UNCHANGED <<fs, dirs, existingContent>>

\* ensureDirectory calling createDirectory without looking at the stat
CfEnsureDirectoryAlwaysCreates(t) ==
    /\ pc[t] = "cf_ensureDirectory"
    /\ Goto(t, "cf_createDirectory")
    /\ NoRecord /\ UndoIdle /\ OtherIdle
    /\ UNCHANGED <<fs, dirs, calls>>

\* createFile: await this.ensureDirectory(path.dirname(filePath)), the stat
CfEnsureDirectory(t) ==
    /\ pc[t] = "cf_ensureDirectory"
    /\ IF DirExists(Dirname(arg[t].path))
         THEN Goto(t, "cf_fileExists")
         ELSE Goto(t, "cf_createDirectory")
    /\ NoRecord /\ UndoIdle /\ OtherIdle
    /\ UNCHANGED <<fs, dirs, calls>>

\* ensureDirectory: the stat threw, await fs.createDirectory
CfCreateDirectory(t) ==
    /\ pc[t] = "cf_createDirectory"
    /\ \E ok \in BOOLEAN :
         IF ok
           THEN /\ dirs' = dirs \cup {Dirname(arg[t].path)}
                /\ Goto(t, "cf_fileExists")
           ELSE /\ dirs' = dirs
                /\ Finish(t, "IOError")
    /\ NoRecord /\ UndoIdle /\ OtherIdle
    /\ UNCHANGED <<fs, calls>>

\* createFile without its existence check
CfFileExistsUnchecked(t) ==
    /\ pc[t] = "cf_fileExists"
    /\ Goto(t, "cf_writeFile")
    /\ NoRecord /\ UndoIdle /\ OtherIdle
    /\ UNCHANGED <<fs, dirs, calls>>

\* createFile: await this.fileExists(filePath)
CfFileExists(t) ==
    /\ pc[t] = "cf_fileExists"
    /\ IF FileExists(arg[t].path)
         THEN Finish(t, "AlreadyExists")
         ELSE Goto(t, "cf_writeFile")
    /\ NoRecord /\ UndoIdle /\ OtherIdle
    /\ UNCHANGED <<fs, dirs, calls>>

\* createFile recording its entry before the write has resolved
CfWriteFileRecordsFirst(t) ==
    /\ pc[t] = "cf_writeFile"
    /\ Record(FileCreateOperation(arg[t].path))
    /\ \E ok \in BOOLEAN :
         IF ok
           THEN /\ fs' = [fs EXCEPT ![arg[t].path] = Utf8(arg[t].content)]
                /\ Finish(t, "ok")
           ELSE /\ fs' = fs
                /\ Finish(t, "IOError")
    /\ UndoIdle /\ OtherIdle
    /\ UNCHANGED <<dirs, calls>>

\* createFile: await fs.writeFile, then recordOperation(FileCreateOperation)
CfWriteFile(t) ==
    /\ pc[t] = "cf_writeFile"
    /\ \E ok \in BOOLEAN :
         IF ok
           THEN /\ fs' = [fs EXCEPT ![arg[t].path] = Utf8(arg[t].content)]
                /\ Record(FileCreateOperation(arg[t].path))
                /\ Finish(t, "ok")
           ELSE /\ fs' = fs
                /\ NoRecord
                /\ Finish(t, "IOError")
    /\ UndoIdle /\ OtherIdle
    /\ UNCHANGED <<dirs, calls>>

\* updateFile without its existence check
UfFileExistsUnchecked(t) ==
    /\ pc[t] = "uf_fileExists"
    /\ Goto(t, "uf_readFile")
    /\ NoRecord /\ UndoIdle /\ OtherIdle
    /\ UNCHANGED <<fs, dirs, calls>>

\* updateFile: await this.fileExists(filePath)
UfFileExists(t) ==
    /\ pc[t] = "uf_fileExists"
    /\ IF FileExists(arg[t].path)
         THEN Goto(t, "uf_readFile")
         ELSE Finish(t, "NotFound")
    /\ NoRecord /\ UndoIdle /\ OtherIdle
    /\ UNCHANGED <<fs, dirs, calls>>

\* updateFile: existingContent = await fs.readFile
UfReadFile(t) ==
    /\ pc[t] = "uf_readFile"
    /\ \E ok \in BOOLEAN :
         IF ok /\ FileExists(arg[t].path)
           THEN /\ pc' = [pc EXCEPT ![t] = "uf_writeFile"]
                /\ existingContent' =
                     [existingContent EXCEPT ![t] = fs[arg[t].path]]
                /\ UNCHANGED <<result, arg>>
           ELSE Finish(t, "IOError")
    /\ NoRecord /\ UndoIdle /\ OtherIdle
    /\ UNCHANGED <<fs, dirs, calls>>

\* updateFile: await fs.writeFile, then recordOperation(FileUpdateOperation)
UfWriteFile(t) ==
    /\ pc[t] = "uf_writeFile"
    /\ \E ok \in BOOLEAN :
         IF ok
           THEN /\ fs' = [fs EXCEPT ![arg[t].path] = Utf8(arg[t].content)]
                /\ Record(FileUpdateOperation(arg[t].path, existingContent[t]))
                /\ Finish(t, "ok")
           ELSE /\ fs' = fs
                /\ NoRecord
                /\ Finish(t, "IOError")
    /\ UndoIdle /\ OtherIdle
    /\ UNCHANGED <<dirs, calls>>

\* deleteFile: await this.fileExists(filePath)
DfFileExists(t) ==
    /\ pc[t] = "df_fileExists"
    /\ IF FileExists(arg[t].path)
         THEN Goto(t, "df_readFile")
         ELSE Finish(t, "NotFound")
    /\ NoRecord /\ UndoIdle /\ OtherIdle
    /\ UNCHANGED <<fs, dirs, calls>>

\* deleteFile: existingContent = await fs.readFile
DfReadFile(t) ==
    /\ pc[t] = "df_readFile"
    /\ \E ok \in BOOLEAN :
         IF ok /\ FileExists(arg[t].path)
           THEN /\ pc' = [pc EXCEPT ![t] = "df_delete"]
                /\ existingContent' =
                     [existingContent EXCEPT ![t] = fs[arg[t].path]]
                /\ UNCHANGED <<result, arg>>
           ELSE Finish(t, "IOError")
    /\ NoRecord /\ UndoIdle /\ OtherIdle
    /\ UNCHANGED <<fs, dirs, calls>>

\* deleteFile: await fs.delete, then recordOperation(FileDeleteOperation)
DfDelete(t) ==
    /\ pc[t] = "df_delete"
    /\ \E ok \in BOOLEAN :
         IF ok /\ FileExists(arg[t].path)
           THEN /\ fs' = [fs EXCEPT ![arg[t].path] = Absent]
                /\ Record(FileDeleteOperation(arg[t].path, existingContent[t]))
                /\ Finish(t, "ok")
           ELSE /\ fs' = fs
                /\ NoRecord
                /\ Finish(t, "IOError")
    /\ UndoIdle /\ OtherIdle
    /\ UNCHANGED <<dirs, calls>>

-----------------------------------------------------------------------------
(* HistoryManager.undo and the entries' undo() *)

NothingToUndo == "Nothing to undo"

UndoneSuccessfully == "Operation undone successfully"

UndoFailed == "Failed to undo operation"

\* undo() without its empty check: pop() gives undefined and the call on it
\* throws into the catch
UndoCommandNoEmptyCheck ==
    /\ IF operations = <<>>
         THEN /\ notification' = UndoFailed
              /\ UNCHANGED <<operations, pendingUndo>>
         ELSE /\ operations' = PopRest(operations)
              /\ pendingUndo' = Append(pendingUndo, PopEntry(operations))
              /\ UNCHANGED notification
    /\ OtherIdle
    /\ UNCHANGED <<fs, dirs, pc, arg, existingContent, result, calls,
                   reversalOutcome>>

\* undo() reading the last entry and leaving it in the log
UndoCommandPeeks ==
    /\ IF operations = <<>>
         THEN /\ notification' = NothingToUndo
              /\ UNCHANGED <<operations, pendingUndo>>
         ELSE /\ operations' = operations
              /\ pendingUndo' = Append(pendingUndo, PopEntry(operations))
              /\ UNCHANGED notification
    /\ OtherIdle
    /\ UNCHANGED <<fs, dirs, pc, arg, existingContent, result, calls,
                   reversalOutcome>>

\* the fintonlabs.undo command: undo() up to its await of lastOperation.undo()
UndoCommand ==
    /\ IF operations = <<>>
         THEN /\ notification' = NothingToUndo
              /\ UNCHANGED <<operations, pendingUndo>>
         ELSE /\ operations' = PopRest(operations)
              /\ pendingUndo' = Append(pendingUndo, PopEntry(operations))
              /\ UNCHANGED notification
    /\ OtherIdle
    /\ UNCHANGED <<fs, dirs, pc, arg, existingContent, result, calls,
                   reversalOutcome>>

\* whether the storage call of an entry's undo() can resolve
ReversalPossible(e) == e.kind = "create" => FileExists(e.path)

\* FileCreateOperation.undo() that leaves the created file in place
ReversalEffectKeepsCreated(e) ==
    IF e.kind = "create"
      THEN fs
      ELSE [fs EXCEPT ![e.path] = e.prior]

\* the storage an entry's undo() leaves when its storage call resolves:
\* FileCreateOperation deletes the path, the other two write _previousContent
ReversalEffect(e) ==
    IF e.kind = "create"
      THEN [fs EXCEPT ![e.path] = Absent]
      ELSE [fs EXCEPT ![e.path] = e.prior]

RemoveAt(s, i) == SubSeq(s, 1, i - 1) \o SubSeq(s, i + 1, Len(s))

\* the message HistoryManager.undo shows once lastOperation.undo() settles
UndoMessage(ok) == IF ok THEN UndoneSuccessfully ELSE UndoFailed

\* undo() pushing the entry back when its reversal fails
UndoReversalRepushes(i) ==
    /\ i \in 1..Len(pendingUndo)
    /\ \E ok \in BOOLEAN :
         LET e == pendingUndo[i]
             done == ok /\ ReversalPossible(e)
         IN  /\ fs' = IF done THEN ReversalEffect(e) ELSE fs
             /\ reversalOutcome' = IF done THEN "resolved" ELSE "rejected"
             /\ notification' = UndoMessage(done)
             /\ operations' = IF done THEN operations ELSE Append(operations, e)
    /\ pendingUndo' = RemoveAt(pendingUndo, i)
    /\ OtherIdle
    /\ UNCHANGED <<dirs, pc, arg, existingContent, result, calls>>

\* lastOperation.undo() going through the mutators, which record what
\* they do
UndoReversalRecords(i) ==
    /\ i \in 1..Len(pendingUndo)
    /\ \E ok \in BOOLEAN :
         LET e == pendingUndo[i]
             done == ok /\ ReversalPossible(e)
         IN  /\ fs' = IF done THEN ReversalEffect(e) ELSE fs
             /\ reversalOutcome' = IF done THEN "resolved" ELSE "rejected"
             /\ notification' = UndoMessage(done)
             /\ operations' =
                  IF done
                    THEN RecordOperation(operations,
                           IF e.kind = "create"
                             THEN FileDeleteOperation(e.path, fs[e.path])
                             ELSE FileUpdateOperation(e.path, fs[e.path]))
                    ELSE operations
    /\ pendingUndo' = RemoveAt(pendingUndo, i)
    /\ OtherIdle
    /\ UNCHANGED <<dirs, pc, arg, existingContent, result, calls>>

\* the awaited lastOperation.undo() settles and undo() shows its message
UndoReversal(i) ==
    /\ i \in 1..Len(pendingUndo)
    /\ \E ok \in BOOLEAN :
         LET e == pendingUndo[i]
             done == ok /\ ReversalPossible(e)
         IN  /\ fs' = IF done THEN ReversalEffect(e) ELSE fs
             /\ reversalOutcome' = IF done THEN "resolved" ELSE "rejected"
             /\ notification' = UndoMessage(done)
    /\ pendingUndo' = RemoveAt(pendingUndo, i)
    /\ OtherIdle
    /\ UNCHANGED <<dirs, operations, pc, arg, existingContent, result, calls>>

-----------------------------------------------------------------------------
(* AICodeGeneratorService: settings, the completion client, the use case    *)

DefaultMaxTokens == 4096

\* the settings as package.json declares them, before the user enters a key
DefaultConfig == [apiKey |-> "", model |-> "gpt-4-turbo",
                  maxTokens |-> DefaultMaxTokens]

\* the settings the user may hold: the defaults, the defaults with a key,
\* a key with a model and a maxTokens of the user's own
Configs ==
    {DefaultConfig,
     [DefaultConfig EXCEPT !.apiKey = "sk-test"],
     [apiKey |-> "sk-test", model |-> "gpt-4", maxTokens |-> 1000]}

\* _initializeAIClient: a client exactly when the apiKey setting is truthy
ClientFor(cfg) == cfg.apiKey # ""

\* the project folder the panel passes as projectPath
Roots == {".", "b"}

NoContent == "undefined"

\* no use case yet.  bracket, threw, startFs and cancelledAt are ghosts:
\* what the structure response held, the per-file calls that threw, the
\* storage the use case started on, where the use case stood when the
\* panel was disposed
NoGen ==
    [useCase |-> "none", pc |-> "idle", root |-> ".", filePaths |-> << >>,
     files |-> << >>, done |-> 0, error |-> "none", bracket |-> "unset",
     threw |-> {}, startFs |-> << >>, code |-> "none",
     cancelledAt |-> "never"]

InitGenerator ==
    /\ config = DefaultConfig
    /\ openai = ClientFor(config)
    /\ gen = NoGen
    /\ attempts = 0
    /\ sent = 0
    /\ outstanding = {}

-----------------------------------------------------------------------------
(* The interleaved system: mutator calls of both callers and undo commands *)

InitStorage ==
    /\ fs \in [Paths -> Bytes \cup {Absent}]
    /\ dirs \in SUBSET {"b"}
    /\ StorageOK

EmptyStorage ==
    /\ fs = [p \in Paths |-> Absent]
    /\ dirs = {}

InitLog ==
    /\ operations = <<>>
    /\ pendingUndo = <<>>
    /\ notification = "none"
    /\ reversalOutcome = "none"

InitCallers ==
    /\ pc = [t \in Callers |-> "idle"]
    /\ arg = [t \in Callers |-> NoArg]
    /\ existingContent = [t \in Callers |-> NoBytes]
    /\ result = [t \in Callers |-> "none"]
    /\ calls = 0

InitRecorder ==
    /\ history = <<>>
    /\ seed = 0

InitPlanner ==
    /\ descLen = 0
    /\ strategy = "none"

Init ==
    /\ InitStorage /\ InitLog /\ InitCallers /\ InitRecorder /\ InitPlanner
    /\ InitGenerator

Next ==
    \/ \E t \in Callers, k \in {"create", "update", "delete"},
          p \in Paths, c \in Strings : CallMutator(t, k, p, c)
    \/ \E t \in Callers : CfEnsureDirectory(t)
    \/ \E t \in Callers : CfCreateDirectory(t)
    \/ \E t \in Callers : CfFileExists(t)
    \/ \E t \in Callers : CfWriteFile(t)
    \/ \E t \in Callers : UfFileExists(t)
    \/ \E t \in Callers : UfReadFile(t)
    \/ \E t \in Callers : UfWriteFile(t)
    \/ \E t \in Callers : DfFileExists(t)
    \/ \E t \in Callers : DfReadFile(t)
    \/ \E t \in Callers : DfDelete(t)
    \/ UndoCommand
    \/ \E i \in 1..Len(pendingUndo) : UndoReversal(i)

Spec == Init /\ [][Next]_vars

-----------------------------------------------------------------------------
(* recordOperation alone: a stream of entries pushed past the capacity *)

StreamEntries ==
    << FileCreateOperation("a.txt"),
       FileUpdateOperation("a.txt", Utf8("hello")),
       FileDeleteOperation("b/c.txt", Utf8("world")),
       FileCreateOperation("b/c.txt"),
       FileUpdateOperation("b/c.txt", Utf8("world")),
       FileDeleteOperation("a.txt", Utf8("hello")),
       FileUpdateOperation("a.txt", Utf8("world")) >>

\* the entry of the n-th call (counted from 0) of the stream chosen by seed
StreamEntry(n) == StreamEntries[((seed + n) % Len(StreamEntries)) + 1]

InitRecord ==
    /\ EmptyStorage /\ InitLog /\ InitCallers /\ InitPlanner /\ InitGenerator
    /\ history = <<>>
    /\ seed \in 0..(Len(StreamEntries) - 1)

\* one recordOperation call, no undo in between
RecordNext ==
    /\ Len(history) < MaxRecords
    /\ operations' = RecordOperation(operations, StreamEntry(Len(history)))
    /\ history' = Append(history, StreamEntry(Len(history)))
    /\ UndoIdle /\ GeneratorIdle
    /\ UNCHANGED <<fs, dirs, pc, arg, existingContent, result, calls, seed,
                   descLen, strategy>>

SpecRecord == InitRecord /\ [][RecordNext]_vars

-----------------------------------------------------------------------------
(* _generateProjectStructure: the choice between one call and the chunked   *)
(* approach                                                                 *)

CharsPerToken == 4

FixedOverhead == 1000

TokenThreshold == 2000

\* description.length / 4 + 1000 is a fraction in JavaScript; this is four
\* times its value, which is a whole number
EstimatedTokensTimes4(len) == len + CharsPerToken * FixedOverhead

\* the decision with >= in place of >
SelectStrategyAtOrAbove(len) ==
    IF EstimatedTokensTimes4(len) >= CharsPerToken * TokenThreshold
      THEN "chunked"
      ELSE "flat"

\* if (estimatedTokens > 2000) _generateLargerProject else the single call
SelectStrategy(len) ==
    IF EstimatedTokensTimes4(len) > CharsPerToken * TokenThreshold
      THEN "chunked"
      ELSE "flat"

InitPlan ==
    /\ EmptyStorage /\ InitLog /\ InitCallers /\ InitRecorder /\ InitGenerator
    /\ descLen \in 0..MaxDescLen
    /\ strategy = "none"

GenerateProjectStructure ==
    /\ strategy = "none"
    /\ strategy' = SelectStrategy(descLen)
    /\ NoRecord /\ UndoIdle /\ GeneratorIdle
    /\ UNCHANGED <<fs, dirs, pc, arg, existingContent, result, calls, history,
                   seed, descLen>>

SpecPlanner == InitPlan /\ [][GenerateProjectStructure]_vars

-----------------------------------------------------------------------------
(* The use cases: generateApplication and updateApplication run by the      *)
(* panel, with the completion calls they make and the mutator calls they    *)
(* dispatch.  Settings may change at any await of the planning, and        *)
(* fintonlabs.undo may run at any await.                                    *)

MaxFiles == 2

ChunkMaxTokens == 2048

\* the longest description the single-call approach still takes
FlatMaxLen == CharsPerToken * (TokenThreshold - FixedOverhead)

DescLens == {FlatMaxLen, FlatMaxLen + 1}

\* config.get('model') || 'gpt-4'
GetModel(cfg) == IF cfg.model = "" THEN "gpt-4" ELSE cfg.model

\* config.get('maxTokens') || 4096
GetMaxTokens(cfg) ==
    IF cfg.maxTokens = 0 THEN DefaultMaxTokens ELSE cfg.maxTokens

\* model === 'gpt-4' ? 'gpt-4' : 'gpt-3.5-turbo'
RequestModel(m) == IF m = "gpt-4" THEN "gpt-4" ELSE "gpt-3.5-turbo"

\* the body of chat.completions.create as far as the settings shape it
Request(cfg, maxTokens, label) ==
    [call |-> label, model |-> RequestModel(GetModel(cfg)),
     max_tokens |-> maxTokens]

\* the relative paths a completion response may name under a project folder
PlanPaths(root) ==
    IF root = "." THEN {"a.txt", "b/c.txt", ""} ELSE {"c.txt", "../a.txt", ""}

\* path.join(projectPath, file.path), normalised
Join(root, rel) ==
    CASE rel = "" -> root
      [] rel # "" /\ root = "." -> rel
      [] rel = "c.txt" /\ root = "b" -> "b/c.txt"
      [] rel = "../a.txt" /\ root = "b" -> "a.txt"

\* the texts a per-file completion call may return; ''' stands for the three
\* backquotes of a code fence
FileResponses == {"world", "'''js\nhello\n'''"}

\* the inside of the first code fence of the text, else the trimmed text
ExtractCode(text) == IF text = "'''js\nhello\n'''" THEN "hello" ELSE text

ServiceError == "Request failed"

NotInitialized == "OpenAI client not initialized"

\* the content pushed for a file whose call threw: a comment line quoting
\* the Error _callAI rethrows
Placeholder(message) ==
    IF message = NotInitialized
      THEN "// Failed to generate content for this file: Error: Error calling AI API: OpenAI client not initialized"
      ELSE "// Failed to generate content for this file: Error: Error calling AI API: Request failed"

PlanEntry(p, a, c) == [path |-> p, action |-> a, content |-> c]

SeqsUpTo(S, n) == UNION {[1..k -> S] : k \in 0..n}

\* what structureResponse.match and JSON.parse make of the structure
\* response: no bracketed part, one that does not parse, an array
NoStructure == [bracket |-> "none", paths |-> << >>]

StructureResponses(root) ==
    {NoStructure, [bracket |-> "invalid", paths |-> << >>]}
      \cup {[bracket |-> "array", paths |-> ps] :
              ps \in SeqsUpTo(PlanPaths(root), MaxFiles)}

\* the ProjectStructure a flat response parses to
CreatePlans(root) ==
    SeqsUpTo({PlanEntry(p, "create", c) :
                p \in PlanPaths(root), c \in Strings}, MaxFiles)

\* the UpdatePlan an update response parses to; content is optional
UpdatePlans(root) ==
    SeqsUpTo({PlanEntry(p, a, c) :
                p \in PlanPaths(root) \ {""},
                a \in {"create", "update"},
                c \in {"hello", NoContent}}
             \cup {PlanEntry(p, "delete", NoContent) :
                     p \in PlanPaths(root) \ {""}}, MaxFiles)

GenFails(kind) == gen' = [gen EXCEPT !.pc = "failed", !.error = kind]

MutatorIdle == UNCHANGED <<pc, arg, existingContent, result, calls>>

StorageIdle == UNCHANGED <<fs, dirs>>

RecorderIdle == UNCHANGED <<history, seed>>

NoCompletion == UNCHANGED <<attempts, sent, outstanding>>

\* _initializeAIClient making a client when there is an apiKey and keeping
\* the one it has when there is none
ConfigChangeKeepsClient(cfg) ==
    /\ cfg # config
    /\ config' = cfg
    /\ openai' = (openai \/ ClientFor(cfg))
    /\ NoCompletion /\ MutatorIdle /\ StorageIdle /\ RecorderIdle
    /\ NoRecord /\ UndoIdle
    /\ UNCHANGED <<gen, descLen, strategy>>

\* the settings change and onDidChangeConfiguration re-runs
\* _initializeAIClient
ConfigChange(cfg) ==
    /\ cfg # config
    /\ config' = cfg
    /\ openai' = ClientFor(cfg)
    /\ NoCompletion /\ MutatorIdle /\ StorageIdle /\ RecorderIdle
    /\ NoRecord /\ UndoIdle
    /\ UNCHANGED <<gen, descLen, strategy>>

\* the calls whose response the use case is waiting for
Awaited == {r.call : r \in outstanding}

\* a completion call of the running use case: the request goes out
IssueRequest(maxTokens, label) ==
    /\ attempts' = attempts + 1
    /\ sent' = sent + 1
    /\ outstanding' = outstanding \cup {Request(config, maxTokens, label)}

\* _generateLargerProject leaving the loop at a call that throws at once,
\* no placeholder pushed
NextFileCallDropsFailed(g) ==
    LET n == Len(g.filePaths)
        i == Len(g.files) + 1
    IN  IF i > n \/ ~openai
          THEN /\ gen' = [g EXCEPT !.pc = "ensureRoot",
                            !.threw = IF i > n THEN g.threw
                                               ELSE g.threw \cup i..n]
               /\ attempts' = IF i > n THEN attempts ELSE attempts + 1
               /\ sent' = sent
               /\ outstanding' = {}
          ELSE /\ gen' = [g EXCEPT !.pc = "content"]
               /\ attempts' = attempts + 1
               /\ sent' = sent + 1
               /\ outstanding' = {Request(config, ChunkMaxTokens, i)}

\* _generateLargerProject with every per-file call started at once
NextFileCallAllAtOnce(g) ==
    LET n == Len(g.filePaths)
    IN  IF Len(g.files) = n \/ ~openai
          THEN /\ gen' = [g EXCEPT !.pc = "ensureRoot"]
               /\ attempts' = attempts
               /\ sent' = sent
               /\ outstanding' = {}
          ELSE /\ gen' = [g EXCEPT !.pc = "content"]
               /\ attempts' = attempts + 1
               /\ sent' = sent + (n - Len(g.files))
               /\ outstanding' = {Request(config, ChunkMaxTokens, j) :
                                    j \in (Len(g.files) + 1)..n}

\* _generateLargerProject with no try around the per-file call: the call
\* made without a client throws out of the loop and the use case fails
NextFileCallAbortsWithoutClient(g) ==
    LET n == Len(g.filePaths)
        i == Len(g.files) + 1
    IN  IF i > n
          THEN /\ gen' = [g EXCEPT !.pc = "ensureRoot"]
               /\ attempts' = attempts
               /\ sent' = sent
               /\ outstanding' = {}
          ELSE IF openai
            THEN /\ gen' = [g EXCEPT !.pc = "content"]
                 /\ attempts' = attempts + 1
                 /\ sent' = sent + 1
                 /\ outstanding' = {Request(config, ChunkMaxTokens, i)}
            ELSE /\ gen' = [g EXCEPT !.pc = "failed",
                              !.error = "ServiceError",
                              !.threw = g.threw \cup {i}]
                 /\ attempts' = attempts + 1
                 /\ sent' = sent
                 /\ outstanding' = {}

\* _generateLargerProject: the loop over filePaths from the entry after
\* g.files up to its next await of a request; a call made without a client
\* throws at once and its placeholder is pushed
NextFileCall(g) ==
    LET n == Len(g.filePaths)
        i == Len(g.files) + 1
    IN  IF i > n
          THEN /\ gen' = [g EXCEPT !.pc = "ensureRoot"]
               /\ attempts' = attempts
               /\ sent' = sent
               /\ outstanding' = {}
          ELSE IF openai
            THEN /\ gen' = [g EXCEPT !.pc = "content"]
                 /\ attempts' = attempts + 1
                 /\ sent' = sent + 1
                 /\ outstanding' = {Request(config, ChunkMaxTokens, i)}
            ELSE /\ gen' = [g EXCEPT !.pc = "ensureRoot",
                              !.files = g.files \o
                                [j \in 1..(n - i + 1) |->
                                   PlanEntry(g.filePaths[i + j - 1], "create",
                                             Placeholder(NotInitialized))],
                              !.threw = g.threw \cup i..n]
                 /\ attempts' = attempts + (n - i + 1)
                 /\ sent' = sent
                 /\ outstanding' = {}

\* generateApplication without its _checkApiKey, the request sent at once
GenerateApplicationUnchecked(root, len) ==
    /\ gen.useCase = "none"
    /\ descLen' = len
    /\ strategy' = SelectStrategy(len)
    /\ gen' = [NoGen EXCEPT !.useCase = "create", !.root = root,
                            !.startFs = fs,
                            !.pc = IF strategy' = "flat"
                                     THEN "flat" ELSE "structure"]
    /\ IF strategy' = "flat"
         THEN IssueRequest(GetMaxTokens(config), "flat")
         ELSE IssueRequest(ChunkMaxTokens, "structure")
    /\ MutatorIdle /\ StorageIdle /\ RecorderIdle /\ NoRecord /\ UndoIdle
    /\ UNCHANGED <<config, openai>>

\* generateApplication making the project folder before it asks for the
\* plan
GenerateApplicationEnsuresFirst(root, len) ==
    /\ gen.useCase = "none"
    /\ descLen' = len
    /\ dirs' = IF root = "." THEN dirs ELSE dirs \cup {root}
    /\ IF ~openai
         THEN /\ gen' = [NoGen EXCEPT !.useCase = "create", !.root = root,
                                      !.pc = "failed", !.startFs = fs,
                                      !.error = "NotConfigured"]
              /\ NoCompletion
              /\ UNCHANGED strategy
         ELSE /\ strategy' = SelectStrategy(len)
              /\ gen' = [NoGen EXCEPT !.useCase = "create", !.root = root,
                                      !.startFs = fs,
                                      !.pc = IF strategy' = "flat"
                                               THEN "flat" ELSE "structure"]
              /\ IF strategy' = "flat"
                   THEN IssueRequest(GetMaxTokens(config), "flat")
                   ELSE IssueRequest(ChunkMaxTokens, "structure")
    /\ MutatorIdle /\ RecorderIdle /\ NoRecord /\ UndoIdle
    /\ UNCHANGED <<fs, config, openai>>

\* generateApplication up to the first await: _checkApiKey, then
\* _generateProjectStructure sends the one request or the structure request
GenerateApplication(root, len) ==
    /\ gen.useCase = "none"
    /\ descLen' = len
    /\ IF ~openai
         THEN /\ gen' = [NoGen EXCEPT !.useCase = "create", !.root = root,
                                      !.pc = "failed", !.startFs = fs,
                                      !.error = "NotConfigured"]
              /\ NoCompletion
              /\ UNCHANGED strategy
         ELSE /\ strategy' = SelectStrategy(len)
              /\ gen' = [NoGen EXCEPT !.useCase = "create", !.root = root,
                                      !.startFs = fs,
                                      !.pc = IF strategy' = "flat"
                                               THEN "flat" ELSE "structure"]
              /\ IF strategy' = "flat"
                   THEN IssueRequest(GetMaxTokens(config), "flat")
                   ELSE IssueRequest(ChunkMaxTokens, "structure")
    /\ MutatorIdle /\ StorageIdle /\ RecorderIdle /\ NoRecord /\ UndoIdle
    /\ UNCHANGED <<config, openai>>

\* A response text is a sequence of blocks: text outside any fence, or a
\* fenced block with the tag that follows its opening backquotes.  A body
\* is the JSON text of a plan, text that is no JSON, or nothing
Json(plan) == [syntax |-> "json", value |-> plan]

NotJson == [syntax |-> "prose", value |-> << >>]

Blank == [syntax |-> "blank", value |-> << >>]

Bare(body) == [kind |-> "bare", tag |-> "", body |-> body]

Fence(tag, body) == [kind |-> "fence", tag |-> tag, body |-> body]

\* the responses to the flat request: the JSON of any plan bare; that of
\* a plan of at most one file in a json fence after some words, in an
\* untagged fence, in a json fence that follows an untagged one; and
\* responses holding no JSON that parses
FlatTexts(root) ==
    {<< Bare(Json(plan)) >> : plan \in CreatePlans(root)}
      \cup UNION {{ << Bare(NotJson), Fence("json", Json(plan)) >>,
                    << Bare(NotJson), Fence("", Json(plan)) >>,
                    << Fence("", NotJson), Fence("json", Json(plan)) >> } :
                  plan \in SeqsUpTo({PlanEntry(p, "create", c) :
                                       p \in PlanPaths(root),
                                       c \in Strings}, 1)}
      \cup { << Bare(NotJson) >>,
             << Fence("json", NotJson) >>,
             << Fence("json", Blank) >>,
             << Fence("js", Json(<< >>)) >>,
             << Bare(NotJson), Fence("", NotJson) >> }

\* responseContent.match of a fence with the given tag: the index of the
\* first such block, 0 when there is none
MatchFence(text, tag) ==
    LET hits == {i \in 1..Len(text) :
                   text[i].kind = "fence" /\ text[i].tag = tag}
    IN  IF hits = {} THEN 0
        ELSE CHOOSE i \in hits : \A k \in hits : i <= k

\* the chain taken from the untagged fence first
ChosenPartPlainFirst(text) ==
    LET tagged == MatchFence(text, "json")
        plain == MatchFence(text, "")
        group == IF plain > 0 THEN text[plain].body
                 ELSE IF tagged > 0 THEN text[tagged].body
                 ELSE Blank
    IN  IF group = Blank THEN text ELSE << Bare(group) >>

\* jsonContent: group 1 of the json-fence match, else of the untagged-fence
\* match, else the response; an empty group 1 also gives the response
ChosenPart(text) ==
    LET tagged == MatchFence(text, "json")
        plain == MatchFence(text, "")
        group == IF tagged > 0 THEN text[tagged].body
                 ELSE IF plain > 0 THEN text[plain].body
                 ELSE Blank
    IN  IF group = Blank THEN text ELSE << Bare(group) >>

\* JSON.parse: only a text that is the JSON of a value, and nothing else,
\* parses
JsonParse(text) ==
    IF Len(text) = 1 /\ text[1].kind = "bare" /\ text[1].body.syntax = "json"
      THEN [ok |-> TRUE, value |-> text[1].body.value]
      ELSE [ok |-> FALSE, value |-> << >>]

\* the single request settles: the service failed, the content is empty or
\* is not JSON, or JSON.parse gives the ProjectStructure
FlatResponse(kind, plan) ==
    /\ gen.pc = "flat"
    /\ "flat" \in Awaited
    /\ outstanding' = {r \in outstanding : r.call # "flat"}
    /\ CASE kind = "error" -> GenFails("ServiceError")
         [] kind = "empty" -> GenFails("ServiceError")
         [] kind = "invalid" -> GenFails("MalformedResponse")
         [] kind = "plan" ->
              gen' = [gen EXCEPT !.pc = "ensureRoot", !.files = plan]
    /\ UNCHANGED <<attempts, sent>>
    /\ MutatorIdle /\ StorageIdle /\ RecorderIdle /\ NoRecord /\ UndoIdle
    /\ UNCHANGED <<config, openai, descLen, strategy>>

\* the flat request settles with a response text: the chosen part is parsed
FlatResponseText(text) ==
    LET parsed == JsonParse(ChosenPart(text))
    IN  FlatResponse(IF parsed.ok THEN "plan" ELSE "invalid", parsed.value)

\* the structure request whose failure is taken as an empty structure
StructureResponseFailureAsEmpty(failed, resp) ==
    /\ gen.pc = "structure"
    /\ "structure" \in Awaited
    /\ IF failed
         THEN NextFileCall(gen)
         ELSE IF resp.bracket = "invalid"
           THEN /\ gen' = [gen EXCEPT !.pc = "failed",
                                       !.error = "PlanningFailed",
                                       !.bracket = resp.bracket]
                /\ outstanding' = {}
                /\ UNCHANGED <<attempts, sent>>
           ELSE NextFileCall([gen EXCEPT !.filePaths = resp.paths,
                                         !.bracket = resp.bracket])
    /\ MutatorIdle /\ StorageIdle /\ RecorderIdle /\ NoRecord /\ UndoIdle
    /\ UNCHANGED <<config, openai, descLen, strategy>>

\* the structure request settles
StructureResponse(failed, resp) ==
    /\ gen.pc = "structure"
    /\ "structure" \in Awaited
    /\ IF failed
         THEN /\ GenFails("ServiceError")
              /\ outstanding' = {}
              /\ UNCHANGED <<attempts, sent>>
         ELSE IF resp.bracket = "invalid"
           THEN /\ gen' = [gen EXCEPT !.pc = "failed",
                                       !.error = "PlanningFailed",
                                       !.bracket = resp.bracket]
                /\ outstanding' = {}
                /\ UNCHANGED <<attempts, sent>>
           ELSE NextFileCall([gen EXCEPT !.filePaths = resp.paths,
                                         !.bracket = resp.bracket])
    /\ MutatorIdle /\ StorageIdle /\ RecorderIdle /\ NoRecord /\ UndoIdle
    /\ UNCHANGED <<config, openai, descLen, strategy>>

\* the per-file try sending the request of a file again, once, when it fails
FileResponseRetries(i, failed, text) ==
    /\ gen.pc = "content"
    /\ i \in Awaited
    /\ i = Len(gen.files) + 1
    /\ IF failed /\ attempts = Len(gen.files) + 2
         THEN /\ attempts' = attempts + 1
              /\ sent' = sent + 1
              /\ UNCHANGED <<gen, outstanding>>
         ELSE NextFileCall([gen EXCEPT
                !.files = Append(gen.files,
                            PlanEntry(gen.filePaths[i], "create",
                                      IF failed THEN Placeholder(ServiceError)
                                                ELSE ExtractCode(text))),
                !.threw = IF failed THEN gen.threw \cup {i} ELSE gen.threw])
    /\ MutatorIdle /\ StorageIdle /\ RecorderIdle /\ NoRecord /\ UndoIdle
    /\ UNCHANGED <<config, openai, descLen, strategy>>

\* the request of one file settles: its content, or its placeholder, is
\* pushed and the loop goes on
FileResponse(i, failed, text) ==
    /\ gen.pc = "content"
    /\ i \in Awaited
    /\ i = Len(gen.files) + 1
    /\ NextFileCall([gen EXCEPT
         !.files = Append(gen.files,
                     PlanEntry(gen.filePaths[i], "create",
                               IF failed THEN Placeholder(ServiceError)
                                         ELSE ExtractCode(text))),
         !.threw = IF failed THEN gen.threw \cup {i} ELSE gen.threw])
    /\ MutatorIdle /\ StorageIdle /\ RecorderIdle /\ NoRecord /\ UndoIdle
    /\ UNCHANGED <<config, openai, descLen, strategy>>

\* the loop taking the plan's files from the last entry to the first
DispatchFromLast(g) ==
    IF g.done = Len(g.files)
      THEN /\ gen' = [g EXCEPT !.pc = "done"]
           /\ MutatorIdle
      ELSE LET file == g.files[Len(g.files) - g.done]
               filePath == Join(g.root, file.path)
           IN  /\ gen' = [g EXCEPT !.pc = "dispatch"]
               /\ pc' = [pc EXCEPT !["panel"] =
                           CASE file.action = "create" -> "cf_ensureDirectory"
                             [] file.action = "update" -> "uf_fileExists"
                             [] file.action = "delete" -> "df_fileExists"]
               /\ arg' = [arg EXCEPT !["panel"] =
                           [path |-> filePath,
                            content |->
                              CASE file.action = "delete" -> "none"
                                [] file.action # "delete"
                                     /\ file.content = NoContent -> ""
                                [] OTHER -> file.content]]
               /\ result' = [result EXCEPT !["panel"] = "pending"]
               /\ calls' = calls + 1
               /\ UNCHANGED existingContent

\* the loop calling createFile for every entry, whatever its action
DispatchIgnoresAction(g) ==
    IF g.done = Len(g.files)
      THEN /\ gen' = [g EXCEPT !.pc = "done"]
           /\ MutatorIdle
      ELSE LET file == g.files[g.done + 1]
               filePath == Join(g.root, file.path)
           IN  /\ gen' = [g EXCEPT !.pc = "dispatch"]
               /\ pc' = [pc EXCEPT !["panel"] = "cf_ensureDirectory"]
               /\ arg' = [arg EXCEPT !["panel"] =
                           [path |-> filePath,
                            content |->
                              IF file.content = NoContent
                                THEN "" ELSE file.content]]
               /\ result' = [result EXCEPT !["panel"] = "pending"]
               /\ calls' = calls + 1
               /\ UNCHANGED existingContent

\* the loop over the plan's files from the entry after g.done up to the
\* first await of the mutator it calls: createFile(filePath, file.content),
\* or in updateApplication the mutator of file.action with file.content || ''
Dispatch(g) ==
    IF g.done = Len(g.files)
      THEN /\ gen' = [g EXCEPT !.pc = "done"]
           /\ MutatorIdle
      ELSE LET file == g.files[g.done + 1]
               filePath == Join(g.root, file.path)
           IN  /\ gen' = [g EXCEPT !.pc = "dispatch"]
               /\ pc' = [pc EXCEPT !["panel"] =
                           CASE file.action = "create" -> "cf_ensureDirectory"
                             [] file.action = "update" -> "uf_fileExists"
                             [] file.action = "delete" -> "df_fileExists"]
               /\ arg' = [arg EXCEPT !["panel"] =
                           [path |-> filePath,
                            content |->
                              CASE file.action = "delete" -> "none"
                                [] file.action # "delete"
                                     /\ file.content = NoContent -> ""
                                [] OTHER -> file.content]]
               /\ result' = [result EXCEPT !["panel"] = "pending"]
               /\ calls' = calls + 1
               /\ UNCHANGED existingContent

\* generateApplication: await ensureDirectory(projectPath), the stat
GaEnsureDirectory ==
    /\ gen.pc = "ensureRoot"
    /\ IF DirExists(gen.root)
         THEN Dispatch(gen)
         ELSE /\ gen' = [gen EXCEPT !.pc = "createRoot"]
              /\ MutatorIdle
    /\ NoCompletion /\ StorageIdle /\ RecorderIdle /\ NoRecord /\ UndoIdle
    /\ UNCHANGED <<config, openai, descLen, strategy>>

\* ensureDirectory(projectPath): the stat threw, await fs.createDirectory
GaCreateDirectory ==
    /\ gen.pc = "createRoot"
    /\ \E ok \in BOOLEAN :
         IF ok
           THEN /\ dirs' = dirs \cup {gen.root}
                /\ Dispatch(gen)
           ELSE /\ dirs' = dirs
                /\ GenFails("IOError")
                /\ MutatorIdle
    /\ NoCompletion /\ RecorderIdle /\ NoRecord /\ UndoIdle
    /\ UNCHANGED <<fs, config, openai, descLen, strategy>>

\* the loop going on to the next entry after a mutator call that threw
MutatorReturnsContinues ==
    /\ gen.pc = "dispatch"
    /\ pc["panel"] = "idle"
    /\ IF result["panel"] = "ok" \/ gen.done + 1 < Len(gen.files)
         THEN Dispatch([gen EXCEPT !.done = gen.done + 1])
         ELSE /\ GenFails(result["panel"])
              /\ MutatorIdle
    /\ NoCompletion /\ StorageIdle /\ RecorderIdle /\ NoRecord /\ UndoIdle
    /\ UNCHANGED <<config, openai, descLen, strategy>>

\* the loop counting the entry after the settled one without calling its
\* mutator
MutatorReturnsSkipsNext ==
    /\ gen.pc = "dispatch"
    /\ pc["panel"] = "idle"
    /\ IF result["panel"] = "ok"
         THEN Dispatch([gen EXCEPT !.done =
                          IF gen.done + 2 <= Len(gen.files)
                            THEN gen.done + 2 ELSE gen.done + 1])
         ELSE /\ GenFails(result["panel"])
              /\ MutatorIdle
    /\ NoCompletion /\ StorageIdle /\ RecorderIdle /\ NoRecord /\ UndoIdle
    /\ UNCHANGED <<config, openai, descLen, strategy>>

\* the loop going on only while the panel is there
MutatorReturnsUnlessDisposed ==
    /\ gen.pc = "dispatch"
    /\ pc["panel"] = "idle"
    /\ gen.cancelledAt = "never"
    /\ IF result["panel"] = "ok"
         THEN Dispatch([gen EXCEPT !.done = gen.done + 1])
         ELSE /\ GenFails(result["panel"])
              /\ MutatorIdle
    /\ NoCompletion /\ StorageIdle /\ RecorderIdle /\ NoRecord /\ UndoIdle
    /\ UNCHANGED <<config, openai, descLen, strategy>>

\* the awaited mutator call has settled: the next entry, or the catch
MutatorReturns ==
    /\ gen.pc = "dispatch"
    /\ pc["panel"] = "idle"
    /\ IF result["panel"] = "ok"
         THEN Dispatch([gen EXCEPT !.done = gen.done + 1])
         ELSE /\ GenFails(result["panel"])
              /\ MutatorIdle
    /\ NoCompletion /\ StorageIdle /\ RecorderIdle /\ NoRecord /\ UndoIdle
    /\ UNCHANGED <<config, openai, descLen, strategy>>

\* updateApplication up to the first await: _checkApiKey, then
\* _analyzeExistingProject starts reading the project
UpdateApplication(root) ==
    /\ gen.useCase = "none"
    /\ gen' = [NoGen EXCEPT !.useCase = "update", !.root = root,
                            !.startFs = fs,
                            !.pc = IF openai THEN "analyze" ELSE "failed",
                            !.error = IF openai THEN "none"
                                                ELSE "NotConfigured"]
    /\ NoCompletion /\ MutatorIdle /\ StorageIdle /\ RecorderIdle
    /\ NoRecord /\ UndoIdle
    /\ UNCHANGED <<config, openai, descLen, strategy>>

\* _analyzeExistingProject settles; on success _generateUpdatePlan sends its
\* request if there is a client and throws if there is none
AnalyzeExistingProject(ok) ==
    /\ gen.pc = "analyze"
    /\ IF ~ok
         THEN GenFails("AnalysisFailed") /\ NoCompletion
         ELSE IF openai
           THEN /\ gen' = [gen EXCEPT !.pc = "updatePlan"]
                /\ IssueRequest(GetMaxTokens(config), "updatePlan")
           ELSE /\ GenFails("NotConfigured")
                /\ attempts' = attempts + 1
                /\ UNCHANGED <<sent, outstanding>>
    /\ MutatorIdle /\ StorageIdle /\ RecorderIdle /\ NoRecord /\ UndoIdle
    /\ UNCHANGED <<config, openai, descLen, strategy>>

\* the update-plan request settles; a parsed plan is applied entry by entry
UpdatePlanResponse(kind, plan) ==
    /\ gen.pc = "updatePlan"
    /\ "updatePlan" \in Awaited
    /\ outstanding' = {r \in outstanding : r.call # "updatePlan"}
    /\ CASE kind = "error" -> GenFails("ServiceError") /\ MutatorIdle
         [] kind = "empty" -> GenFails("ServiceError") /\ MutatorIdle
         [] kind = "invalid" -> GenFails("MalformedResponse") /\ MutatorIdle
         [] kind = "plan" -> Dispatch([gen EXCEPT !.files = plan])
    /\ UNCHANGED <<attempts, sent>>
    /\ StorageIdle /\ RecorderIdle /\ NoRecord /\ UndoIdle
    /\ UNCHANGED <<config, openai, descLen, strategy>>

\* generateComponent and generateFunction up to the first await:
\* generateComponent looking at the target path before it asks for the
\* code, and failing at once when a file is there
GenerateCodeChecksTarget(useCase, targetPath) ==
    /\ gen.useCase = "none"
    /\ IF ~openai \/ FileExists(targetPath)
         THEN /\ gen' = [NoGen EXCEPT !.useCase = useCase, !.pc = "failed",
                                      !.startFs = fs,
                                      !.files = << PlanEntry(targetPath,
                                                     "create", NoContent) >>,
                                      !.error = IF ~openai
                                                  THEN "NotConfigured"
                                                  ELSE "AlreadyExists"]
              /\ NoCompletion
         ELSE /\ gen' = [NoGen EXCEPT !.useCase = useCase, !.pc = "code",
                                      !.startFs = fs,
                                      !.files = << PlanEntry(targetPath,
                                                     "create", NoContent) >>]
              /\ IssueRequest(GetMaxTokens(config), useCase)
    /\ MutatorIdle /\ StorageIdle /\ RecorderIdle /\ NoRecord /\ UndoIdle
    /\ UNCHANGED <<config, openai, descLen, strategy>>

\* _checkApiKey, then _generateComponentCode or _generateFunctionCode sends
\* its request
GenerateCode(useCase, targetPath) ==
    /\ gen.useCase = "none"
    /\ IF ~openai
         THEN /\ gen' = [NoGen EXCEPT !.useCase = useCase, !.pc = "failed",
                                      !.startFs = fs,
                                      !.error = "NotConfigured"]
              /\ NoCompletion
         ELSE /\ gen' = [NoGen EXCEPT !.useCase = useCase, !.pc = "code",
                                      !.startFs = fs,
                                      !.files = << PlanEntry(targetPath,
                                                     "create", NoContent) >>]
              /\ IssueRequest(GetMaxTokens(config), useCase)
    /\ MutatorIdle /\ StorageIdle /\ RecorderIdle /\ NoRecord /\ UndoIdle
    /\ UNCHANGED <<config, openai, descLen, strategy>>

\* the code request settling with generateFunction, too, writing the
\* code to a file
CodeResponseAlwaysCreates(kind, text) ==
    /\ gen.pc = "code"
    /\ outstanding' = {}
    /\ UNCHANGED <<attempts, sent>>
    /\ IF kind # "text"
         THEN GenFails("ServiceError") /\ MutatorIdle
         ELSE /\ gen' = [gen EXCEPT !.pc = "componentFile",
                                     !.code = ExtractCode(text)]
              /\ pc' = [pc EXCEPT !["command"] = "cf_ensureDirectory"]
              /\ arg' = [arg EXCEPT !["command"] =
                          [path |-> IF gen.useCase = "function"
                                      THEN "a.txt" ELSE gen.files[1].path,
                           content |-> ExtractCode(text)]]
              /\ result' = [result EXCEPT !["command"] = "pending"]
              /\ calls' = calls + 1
              /\ UNCHANGED existingContent
    /\ StorageIdle /\ RecorderIdle /\ NoRecord /\ UndoIdle
    /\ UNCHANGED <<config, openai, descLen, strategy>>

\* the code request settles: generateFunction returns the code,
\* generateComponent calls createFile(targetPath, componentCode)
CodeResponse(kind, text) ==
    /\ gen.pc = "code"
    /\ outstanding' = {}
    /\ UNCHANGED <<attempts, sent>>
    /\ IF kind # "text"
         THEN GenFails("ServiceError") /\ MutatorIdle
         ELSE IF gen.useCase = "function"
           THEN /\ gen' = [gen EXCEPT !.pc = "done",
                                       !.code = ExtractCode(text)]
                /\ MutatorIdle
           ELSE /\ gen' = [gen EXCEPT !.pc = "componentFile",
                                       !.code = ExtractCode(text)]
                /\ pc' = [pc EXCEPT !["command"] = "cf_ensureDirectory"]
                /\ arg' = [arg EXCEPT !["command"] =
                            [path |-> gen.files[1].path,
                             content |-> ExtractCode(text)]]
                /\ result' = [result EXCEPT !["command"] = "pending"]
                /\ calls' = calls + 1
                /\ UNCHANGED existingContent
    /\ StorageIdle /\ RecorderIdle /\ NoRecord /\ UndoIdle
    /\ UNCHANGED <<config, openai, descLen, strategy>>

\* generateComponent: the awaited createFile has settled
ComponentFileSettles ==
    /\ gen.pc = "componentFile"
    /\ pc["command"] = "idle"
    /\ IF result["command"] = "ok"
         THEN gen' = [gen EXCEPT !.pc = "done", !.done = 1]
         ELSE GenFails(result["command"])
    /\ NoCompletion /\ MutatorIdle /\ StorageIdle /\ RecorderIdle
    /\ NoRecord /\ UndoIdle
    /\ UNCHANGED <<config, openai, descLen, strategy>>

ResponseKinds == {"error", "empty", "invalid", "plan"}

CodeResponseKinds == {"error", "empty", "text"}

\* only a response that parses carries a plan
PlansOf(kind, plans) == IF kind = "plan" THEN plans ELSE {<< >>}

\* a project folder holding both files
PopulatedStorage ==
    /\ fs = [p \in Paths |-> Utf8("world")]
    /\ dirs = {"b"}

InitApp ==
    /\ EmptyStorage \/ PopulatedStorage
    /\ InitLog /\ InitCallers /\ InitRecorder /\ InitPlanner
    /\ config \in Configs
    /\ openai = ClientFor(config)
    /\ gen = NoGen
    /\ attempts = 0
    /\ sent = 0
    /\ outstanding = {}

\* the use case still has a completion call to make or to await: the
\* stretch in which the settings are read
Planning ==
    gen.pc \in {"flat", "structure", "content", "analyze", "updatePlan", "code"}

AppNext ==
    \/ Planning /\ \E cfg \in Configs : ConfigChange(cfg)
    \/ \E root \in Roots, len \in DescLens : GenerateApplication(root, len)
    \/ /\ gen.pc = "flat"
       /\ \E kind \in {"error", "empty"} : FlatResponse(kind, << >>)
    \/ /\ gen.pc = "flat"
       /\ \E text \in FlatTexts(gen.root) : FlatResponseText(text)
    \/ /\ gen.pc = "structure"
       /\ \E failed \in BOOLEAN :
            \E resp \in IF failed THEN {NoStructure}
                                 ELSE StructureResponses(gen.root) :
              StructureResponse(failed, resp)
    \/ \E i \in 1..MaxFiles, failed \in BOOLEAN, text \in FileResponses :
         FileResponse(i, failed, text)
    \/ GaEnsureDirectory
    \/ GaCreateDirectory
    \/ MutatorReturns
    \/ \E root \in Roots : UpdateApplication(root)
    \/ \E ok \in BOOLEAN : AnalyzeExistingProject(ok)
    \/ /\ gen.pc = "updatePlan"
       /\ \E kind \in ResponseKinds :
            \E plan \in PlansOf(kind, UpdatePlans(gen.root)) :
              UpdatePlanResponse(kind, plan)
    \/ \E p \in Paths : GenerateCode("component", p)
    \/ GenerateCode("function", "none")
    \/ \E kind \in CodeResponseKinds, text \in FileResponses :
         CodeResponse(kind, text)
    \/ ComponentFileSettles
    \/ \E t \in Callers : CfEnsureDirectory(t)
    \/ \E t \in Callers : CfCreateDirectory(t)
    \/ \E t \in Callers : CfFileExists(t)
    \/ \E t \in Callers : CfWriteFile(t)
    \/ UfFileExists("panel")
    \/ UfReadFile("panel")
    \/ UfWriteFile("panel")
    \/ DfFileExists("panel")
    \/ DfReadFile("panel")
    \/ DfDelete("panel")
    \/ UndoCommand
    \/ \E i \in 1..Len(pendingUndo) : UndoReversal(i)

SpecApp == InitApp /\ [][AppNext]_vars

-----------------------------------------------------------------------------
(* Mutator calls and undo commands on a log that is one entry short of its  *)
(* capacity: the state after maxHistorySize - 1 recorded operations         *)

MaxPending == 1

InitFullLog ==
    /\ EmptyStorage \/ PopulatedStorage
    /\ InitCallers /\ InitPlanner /\ InitGenerator
    /\ seed \in {0, 3}
    /\ history = [i \in 1..(maxHistorySize - 1) |-> StreamEntry(i - 1)]
    /\ operations = history
    /\ pendingUndo = <<>>
    /\ notification = "none"
    /\ reversalOutcome = "none"

\* the steps of the interleaved system; the user runs fintonlabs.undo only
\* while the log is within two entries of its capacity and at most
\* MaxPending + 1 reversals are in flight
FullLogNext ==
    /\ Next
    /\ Len(operations') >= maxHistorySize - 2
    /\ Len(pendingUndo') <= MaxPending + 1

SpecFullLog == InitFullLog /\ [][FullLogNext]_vars

-----------------------------------------------------------------------------
(* The panel's use cases with the panel's cancel message: every awaited     *)
(* call settles, the user may cancel or close the panel while one runs      *)

Running ==
    /\ gen.useCase \in {"create", "update"}
    /\ gen.pc \notin {"done", "failed"}

\* the 'cancel' message or the closing of the panel: dispose() disposes
\* the panel and its listeners; generateApplication or updateApplication,
\* awaited by the message handler that started it, is not touched
Cancel ==
    /\ Running
    /\ gen.cancelledAt = "never"
    /\ gen' = [gen EXCEPT !.cancelledAt = gen.pc]
    /\ NoCompletion /\ MutatorIdle /\ StorageIdle /\ RecorderIdle
    /\ NoRecord /\ UndoIdle
    /\ UNCHANGED <<config, openai, descLen, strategy>>

InitCancel ==
    /\ InitApp
    /\ config = [DefaultConfig EXCEPT !.apiKey = "sk-test"]

\* an awaited completion call or storage call of the use case settles
PanelStep ==
    \/ /\ gen.pc = "flat"
       /\ \E kind \in {"error", "empty"} : FlatResponse(kind, << >>)
    \/ /\ gen.pc = "flat"
       /\ \E text \in FlatTexts(gen.root) : FlatResponseText(text)
    \/ /\ gen.pc = "structure"
       /\ \E failed \in BOOLEAN :
            \E resp \in IF failed THEN {NoStructure}
                                 ELSE StructureResponses(gen.root) :
              StructureResponse(failed, resp)
    \/ \E i \in 1..MaxFiles, failed \in BOOLEAN, text \in FileResponses :
         FileResponse(i, failed, text)
    \/ GaEnsureDirectory
    \/ GaCreateDirectory
    \/ MutatorReturns
    \/ \E ok \in BOOLEAN : AnalyzeExistingProject(ok)
    \/ /\ gen.pc = "updatePlan"
       /\ \E kind \in ResponseKinds :
            \E plan \in PlansOf(kind, UpdatePlans(gen.root)) :
              UpdatePlanResponse(kind, plan)
    \/ CfEnsureDirectory("panel")
    \/ CfCreateDirectory("panel")
    \/ CfFileExists("panel")
    \/ CfWriteFile("panel")
    \/ UfFileExists("panel")
    \/ UfReadFile("panel")
    \/ UfWriteFile("panel")
    \/ DfFileExists("panel")
    \/ DfReadFile("panel")
    \/ DfDelete("panel")

CancelNext ==
    \/ \E root \in Roots, len \in DescLens : GenerateApplication(root, len)
    \/ \E root \in Roots : UpdateApplication(root)
    \/ Cancel
    \/ PanelStep

SpecCancel == InitCancel /\ [][CancelNext]_vars /\ WF_vars(PanelStep)

-----------------------------------------------------------------------------
(* Successful mutator calls one after another, then undo commands that     *)
(* need not wait for the one before (the command handler does not await     *)
(* undo()), on a storage nothing else writes to and whose calls do not fail *)
(* for a reason of their own                                                *)

\* no fintonlabs.undo has been run
NoUndoStarted == pendingUndo = <<>> /\ notification = "none"

\* gen.startFs keeps the files the sequence started on
InitRoundTrip ==
    /\ InitStorage /\ InitLog /\ InitCallers /\ InitRecorder /\ InitPlanner
    /\ config = DefaultConfig
    /\ openai = ClientFor(config)
    /\ gen = [NoGen EXCEPT !.startFs = fs]
    /\ attempts = 0
    /\ sent = 0
    /\ outstanding = {}

\* a step of the panel's mutator call
PanelMutatorStep ==
    \/ CfEnsureDirectory("panel")
    \/ CfCreateDirectory("panel")
    \/ CfFileExists("panel")
    \/ CfWriteFile("panel")
    \/ UfFileExists("panel")
    \/ UfReadFile("panel")
    \/ UfWriteFile("panel")
    \/ DfFileExists("panel")
    \/ DfReadFile("panel")
    \/ DfDelete("panel")

\* the panel's next mutator call, as long as no undo has run: a createFile
\* on a path that does not exist, an updateFile or deleteFile on one that
\* does
NextMutatorCall ==
    /\ NoUndoStarted
    /\ \E k \in {"create", "update", "delete"}, p \in Paths, c \in Strings :
         /\ k = "create" <=> ~FileExists(p)
         /\ CallMutator("panel", k, p, c)

\* a step of the running mutator call, none of which fails
MutatorStep ==
    /\ PanelMutatorStep
    /\ result'["panel"] \in {"pending", "ok"}

\* fintonlabs.undo once the mutator calls are over, whether or not an
\* earlier undo still awaits its reversal
OverlappingUndo ==
    /\ pc["panel"] = "idle"
    /\ UndoCommand

\* one of the reversals in flight settles, in any order; its storage call
\* rejects only when the storage cannot do what it asks
AnyReversalWithoutFault ==
    \E i \in 1..Len(pendingUndo) :
      /\ UndoReversal(i)
      /\ reversalOutcome' = "rejected" => ~ReversalPossible(pendingUndo[i])

OverlapNext ==
    \/ NextMutatorCall
    \/ MutatorStep
    \/ OverlappingUndo
    \/ AnyReversalWithoutFault

SpecOverlap == InitRoundTrip /\ [][OverlapNext]_vars

-----------------------------------------------------------------------------
(* Properties *)

LastN(s, n) == IF Len(s) <= n THEN s ELSE SubSeq(s, Len(s) - n + 1, Len(s))

\* the write, or delete, a mutator call awaits last
MutationPcs == {"cf_writeFile", "uf_writeFile", "df_delete"}

\* caller t's step is the one in which its mutator call returns normally
Succeeds(t) ==
    /\ pc[t] \in MutationPcs
    /\ pc'[t] = "idle"
    /\ result'[t] = "ok"

\* the entry the call caller t is running should leave in the log
ExpectedEntry(t) ==
    [kind |-> CASE pc[t] = "cf_writeFile" -> "create"
                [] pc[t] = "uf_writeFile" -> "update"
                [] OTHER -> "delete",
     path |-> arg[t].path,
     prior |-> existingContent[t]]

\* the step settles the reversal of an in-flight undo
ReversalSettles == Len(pendingUndo') < Len(pendingUndo)

\* the step is an undo() that popped an entry
UndoPops == Len(pendingUndo') > Len(pendingUndo)

\* C1: with only recordOperation calls, the log never holds more than
\* maxHistorySize (100) entries and always equals the last 100 entries
\* recorded, in recording order; so past 100 records the oldest are gone.
C1_LogKeepsNewestN ==
    /\ Len(operations) <= maxHistorySize
    /\ operations = LastN(history, maxHistorySize)

C1_Witness ==
    /\ Len(history) = maxHistorySize + 3
    /\ Len(operations) = maxHistorySize
    /\ operations[1] = history[4]

\* C2: undo is LIFO.  Every undo() that pops takes the entry recorded last
\* among those still in the log, leaves the earlier ones in order and hands
\* that entry to its reversal; so k undo() calls on O1..Ok take Ok, ..., O1,
\* and an undo() on the then empty log shows 'Nothing to undo'.
C2_UndoIsLIFO ==
    [][ /\ UndoPops =>
              /\ operations # <<>>
              /\ pendingUndo' = Append(pendingUndo, operations[Len(operations)])
              /\ operations' = SubSeq(operations, 1, Len(operations) - 1)
        /\ (UndoCommand /\ operations = <<>>) =>
              /\ notification' = NothingToUndo
              /\ pendingUndo' = pendingUndo
      ]_vars

C2_Witness ==
    /\ operations = <<>>
    /\ Len(pendingUndo) = 2
    /\ pendingUndo[1].kind = "update"
    /\ pendingUndo[2].kind = "create"
    /\ notification = NothingToUndo

\* C3: a createFile, updateFile or deleteFile call that returns normally
\* appends exactly one entry, its own, in the step in which its write (or
\* delete) has taken effect; every other step of a mutator call, a failing
\* one included, leaves the log as it is, and a call returns normally only
\* from that step.
C3_OneEntryPerSuccessfulCall ==
    [][ \A t \in Callers :
          /\ Succeeds(t) =>
               /\ operations' =
                    IF Len(operations) < maxHistorySize
                      THEN Append(operations, ExpectedEntry(t))
                      ELSE Append(Tail(operations), ExpectedEntry(t))
               /\ fs'[arg[t].path] =
                    IF pc[t] = "df_delete" THEN Absent ELSE Utf8(arg[t].content)
          /\ (pc'[t] # pc[t] /\ ~Succeeds(t)) => operations' = operations
          /\ (result'[t] = "ok" /\ result[t] # "ok") => Succeeds(t)
      ]_vars

C3_Witness ==
    /\ calls = 2
    /\ result["panel"] = "ok"
    /\ result["command"] = "IOError"
    /\ Len(operations) = 1
    /\ pendingUndo = <<>>
    /\ notification = "none"

\* C4: when the reversal of an entry resolves, the entry's path is absent
\* if the entry is a Create, and holds exactly the entry's captured bytes if
\* it is an Update or a Delete.
C4_UndoRestores ==
    [][ (ReversalSettles /\ reversalOutcome' = "resolved") =>
          \E i \in 1..Len(pendingUndo) :
            /\ pendingUndo' = RemoveAt(pendingUndo, i)
            /\ IF pendingUndo[i].kind = "create"
                 THEN fs'[pendingUndo[i].path] = Absent
                 ELSE /\ pendingUndo[i].prior \in Bytes
                      /\ fs'[pendingUndo[i].path] = pendingUndo[i].prior
      ]_vars

C4_Witness ==
    /\ reversalOutcome = "resolved"
    /\ notification = UndoneSuccessfully
    /\ calls = 2
    /\ operations = <<>>
    /\ pendingUndo = <<>>
    /\ fs["a.txt"] = Absent
    /\ fs["b/c.txt"] = Utf8("hello")

\* C5: when the reversal of an undo fails, 'Failed to undo operation' is
\* shown, the entry goes neither back to the log nor stays in flight, and
\* storage is not touched again; the undo() had shortened the log by exactly
\* its last entry, so the next undo() takes the entry recorded before it.
C5_FailedUndoDropsEntry ==
    [][ /\ (ReversalSettles /\ reversalOutcome' = "rejected") =>
              /\ notification' = UndoFailed
              /\ operations' = operations
              /\ fs' = fs
              /\ \E i \in 1..Len(pendingUndo) :
                     pendingUndo' = RemoveAt(pendingUndo, i)
        /\ UndoPops =>
              /\ Len(operations') = Len(operations) - 1
              /\ operations' = SubSeq(operations, 1, Len(operations) - 1)
      ]_vars

C5_Witness ==
    /\ reversalOutcome = "rejected"
    /\ notification = UndoFailed
    /\ calls = 2
    /\ Len(operations) = 1
    /\ pendingUndo = <<>>

\* C6: an undo() on an empty log shows 'Nothing to undo', starts no
\* reversal, touches no file or directory and leaves the log empty.
C6_UndoOnEmptyLog ==
    [][ (operations = <<>> /\ UndoCommand) =>
          /\ notification' = NothingToUndo
          /\ operations' = <<>>
          /\ pendingUndo' = pendingUndo
          /\ reversalOutcome' = reversalOutcome
          /\ fs' = fs
          /\ dirs' = dirs
      ]_vars

C6_Witness ==
    /\ notification = NothingToUndo
    /\ operations = <<>>
    /\ pendingUndo = <<>>
    /\ calls = 0

\* C7: while the path of a createFile call exists, the call's directory
\* step creates no directory and its existence check ends the call with
\* AlreadyExists; neither step writes a file, makes a directory or records
\* an entry.
C7_CreateOnExistingPath ==
    [][ \A t \in Callers :
          (/\ pc[t] \in {"cf_ensureDirectory", "cf_fileExists"}
           /\ pc'[t] # pc[t]
           /\ FileExists(arg[t].path)) =>
             /\ fs' = fs
             /\ dirs' = dirs
             /\ operations' = operations
             /\ pc[t] = "cf_ensureDirectory" => pc'[t] = "cf_fileExists"
             /\ pc[t] = "cf_fileExists" =>
                  (pc'[t] = "idle" /\ result'[t] = "AlreadyExists")
      ]_vars

C7_Witness ==
    /\ result["panel"] = "AlreadyExists"
    /\ calls = 1
    /\ operations = <<>>
    /\ fs["b/c.txt"] = Utf8("world")

\* C8: no recordOperation takes effect while an undo() has popped its entry
\* and that entry's reversal has not yet settled.
C8_NoRecordDuringUndo ==
    [][ pendingUndo # <<>> => \A t \in Callers : ~Succeeds(t) ]_vars

\* C9: the bytes stored in the entry updateFile (deleteFile) records are the
\* bytes the path held immediately before that call's write (delete).
C9_SnapshotIsPreMutationBytes ==
    [][ \A t \in Callers :
          (Succeeds(t) /\ pc[t] \in {"uf_writeFile", "df_delete"}) =>
             operations'[Len(operations')].prior = fs[arg[t].path]
      ]_vars

\* C10, with the threshold itself on the Flat side: the single call (Flat)
\* is chosen exactly when description.length / 4 + 1000 is at most 2000,
\* that is for a length of at most 4000, and the chunked approach when it is
\* above 2000; length 3000 gives Flat, length 5000 Chunked, and an estimate
\* of exactly 2000 Flat.
C10_FlatUpToThreshold ==
    strategy # "none" =>
      /\ strategy = "flat" <=> descLen <= 4000
      /\ strategy = "chunked" <=> descLen > 4000
      /\ descLen = 3000 => strategy = "flat"
      /\ descLen = 5000 => strategy = "chunked"

C10_Witness ==
    /\ descLen = 4000
    /\ strategy = "flat"

\* C10, with the threshold itself on the Chunked side: Flat exactly when
\* description.length / 4 + 1000 is below 2000, Chunked when it is at or
\* above 2000.
C10_FlatBelowThreshold ==
    strategy # "none" =>
      (strategy = "flat" <=> descLen + 4 * 1000 < 4 * 2000)

-----------------------------------------------------------------------------
(* The chunked approach *)

Placeholders == {Placeholder(ServiceError), Placeholder(NotInitialized)}

\* the structure response gave the path array and the loop over it has ended
ChunkedPlanned == gen.bracket \in {"none", "array"} /\ gen.pc # "content"

\* C11: once the chunked approach has gone through a path array of N paths,
\* the plan has exactly N entries, entry i naming path i of the array; the
\* entry of a call that threw holds the placeholder quoting the error, every
\* other entry holds the code extracted from the response of its own call
C11_ChunkedPlanHasEveryPath ==
    ChunkedPlanned =>
      /\ Len(gen.files) = Len(gen.filePaths)
      /\ \A i \in 1..Len(gen.filePaths) :
           /\ gen.files[i].path = gen.filePaths[i]
           /\ IF i \in gen.threw
                THEN gen.files[i].content \in Placeholders
                ELSE gen.files[i].content \in
                       {ExtractCode(text) : text \in FileResponses}

\* two paths, the call of the first failed, the second has its own content
C11_Witness ==
    /\ ChunkedPlanned
    /\ Len(gen.filePaths) = 2
    /\ gen.threw = {1}
    /\ gen.files[1].content = Placeholder(ServiceError)
    /\ gen.files[2].content = "hello"

\* C12: whenever the structure response holds no bracketed array, or a
\* bracketed part that does not parse, the structure phase fails with
\* PlanningFailed, no per-file completion call is made and no file is created
C12_StructureFailsWithoutArray ==
    gen.bracket \in {"none", "invalid"} =>
      /\ gen.pc = "failed"
      /\ gen.error = "PlanningFailed"
      /\ attempts = 1
      /\ calls = 0

-----------------------------------------------------------------------------
(* generateApplication applying its plan *)

\* fintonlabs.undo has not been run since activation
NoUndoYet == pendingUndo = << >> /\ notification = "none"

\* the Create entries of the plan entries applied so far, in plan order
CreatedSoFar ==
    [j \in 1..gen.done |->
       FileCreateOperation(Join(gen.root, gen.files[j].path))]

\* C13: when the createFile of plan entry k throws, generateApplication
\* stops: exactly k mutator calls were started and none is started later;
\* and, no undo command having been run, the files of entries 1..k-1 are in
\* storage with their contents, the log holds their k-1 Create entries in
\* plan order, nothing having been rolled back, and the reversal of each of
\* them can resolve
C13_CreateAbortsAtFirstFailure ==
    (gen.useCase = "create" /\ gen.pc = "failed" /\ calls > 0) =>
      /\ calls = gen.done + 1
      /\ pc["panel"] = "idle"
      /\ NoUndoYet =>
           /\ operations = CreatedSoFar
           /\ \A j \in 1..gen.done :
                /\ fs[Join(gen.root, gen.files[j].path)] =
                     Utf8(gen.files[j].content)
                /\ ReversalPossible(operations[j])

\* the second of two entries names the path of the first: its createFile
\* throws, the first file and its entry stay
C13_Witness ==
    /\ gen.useCase = "create"
    /\ gen.pc = "failed"
    /\ gen.error = "AlreadyExists"
    /\ gen.done = 1
    /\ Len(gen.files) = 2
    /\ NoUndoYet
    /\ operations = << FileCreateOperation("a.txt") >>
    /\ fs["a.txt"] = Utf8("hello")

-----------------------------------------------------------------------------
(* Completion calls *)

\* C14: the per-file calls of the chunked approach go out one at a time in
\* the order of the path array: at most one completion request of the use
\* case is outstanding, and while the loop waits it waits for the call of
\* the path that follows the entries already pushed
C14_OneCallAtATime ==
    /\ Cardinality(outstanding) <= 1
    /\ gen.pc = "content" => Awaited = {Len(gen.files) + 1}

\* the call of the second path is outstanding, the first entry is pushed
C14_Witness ==
    /\ gen.pc = "content"
    /\ Len(gen.filePaths) = 2
    /\ Len(gen.files) = 1
    /\ Awaited = {2}

\* the per-file calls that threw at once, there being no client
ThrewAtOnce ==
    {i \in 1..Len(gen.files) :
       gen.files[i].content = Placeholder(NotInitialized)}

\* C15: no completion call is made twice.  generateApplication taking the
\* single-call approach makes exactly one completion call; taking the
\* chunked approach it makes one call while the structure is awaited or has
\* failed, and exactly N + 1 calls once it has gone through the N paths of
\* the array, whichever of them failed; every call reaches the service but
\* the ones that threw at once for want of a client
C15_NoCompletionRetry ==
    /\ sent <= attempts
    /\ (gen.useCase = "create" /\ strategy = "flat") => attempts = 1
    /\ (gen.useCase = "create" /\ strategy = "chunked") =>
         /\ gen.pc = "structure" => attempts = 1
         /\ gen.bracket \in {"unset", "invalid"} => attempts = 1
         /\ gen.pc = "content" => attempts = Len(gen.files) + 2
         /\ ChunkedPlanned =>
              /\ attempts = Len(gen.filePaths) + 1
              /\ sent = attempts - Cardinality(ThrewAtOnce)

\* two paths, the service failed the call of the first: three calls in all
C15_Witness ==
    /\ ChunkedPlanned
    /\ Len(gen.filePaths) = 2
    /\ gen.files[1].content = Placeholder(ServiceError)
    /\ attempts = 3
    /\ sent = 3

-----------------------------------------------------------------------------
(* updateApplication applying its plan *)

\* the plan entry whose mutator call updateApplication is awaiting
Dispatched == gen.files[gen.done + 1]

\* C16: updateApplication calls createFile or updateFile only for a plan
\* entry that has content: an entry without content is never dispatched
C16_ContentValidatedBeforeDispatch ==
    (gen.useCase = "update" /\ gen.pc = "dispatch"
       /\ Dispatched.action \in {"create", "update"}) =>
      Dispatched.content # NoContent

-----------------------------------------------------------------------------
(* The credential *)

\* C17: while the apiKey setting is empty no step sends a completion
\* request; a use case invoked then fails with NotConfigured in that very
\* step, having made no completion call and touched neither storage nor the
\* log; and a use case that has failed with NotConfigured, at its start or
\* at a later completion call, starts no mutator call afterwards
C17_NoRequestWithoutCredential ==
    [][ /\ config.apiKey = "" =>
             /\ sent' = sent
             /\ outstanding' \subseteq outstanding
        /\ (config.apiKey = "" /\ gen.useCase = "none"
              /\ gen'.useCase # "none") =>
             /\ gen'.pc = "failed"
             /\ gen'.error = "NotConfigured"
             /\ attempts' = attempts
             /\ UNCHANGED <<fs, dirs, operations, calls, pc>>
        /\ (gen.pc = "failed" /\ gen.error = "NotConfigured") =>
             UNCHANGED <<calls, pc, sent>>
      ]_vars

\* the apiKey was removed while the call of the first of two paths was
\* awaited: the call of the second path threw without reaching the service
C17_Witness ==
    /\ config.apiKey = ""
    /\ ChunkedPlanned
    /\ Len(gen.filePaths) = 2
    /\ gen.files[2].content = Placeholder(NotInitialized)
    /\ attempts = 3
    /\ sent = 2

-----------------------------------------------------------------------------
(* The settings a request carries *)

\* C18: every completion request, of any use case, carries the model and
\* the maxTokens the settings hold at the moment it is sent, unchanged
C18_RequestCarriesSettings ==
    [][ \A r \in outstanding' \ outstanding :
          /\ r.model = config.model
          /\ r.max_tokens = config.maxTokens ]_vars

-----------------------------------------------------------------------------
(* The paths handed to the mutators *)

\* filePath names a file below the project folder
InsideRoot(root, filePath) ==
    /\ filePath \in Paths
    /\ root = "." \/ Dirname(filePath) = root

\* C19: every plan entry generateApplication or updateApplication hands to
\* a mutator has a non-empty relative path, and the path the mutator is
\* called with lies inside the project folder, whatever the completion
\* response held
C19_DispatchedPathInsideRoot ==
    (gen.useCase \in {"create", "update"} /\ gen.pc = "dispatch") =>
      /\ Dispatched.path # ""
      /\ pc["panel"] # "idle" => InsideRoot(gen.root, arg["panel"].path)

-----------------------------------------------------------------------------
(* generateApplication end to end *)

\* the paths the plan's entries join to
PlannedPaths ==
    {Join(gen.root, gen.files[j].path) : j \in 1..Len(gen.files)}

\* the plan names k distinct files
DistinctFiles ==
    /\ PlannedPaths \subseteq Paths
    /\ Cardinality(PlannedPaths) = Len(gen.files)

\* generateApplication was started on storage holding no file, and no undo
\* command has been run since
OnEmptyRoot ==
    /\ gen.useCase = "create"
    /\ gen.startFs = [p \in Paths |-> Absent]
    /\ NoUndoYet

\* C20: generateApplication run on an empty project folder with a plan of k
\* distinct paths, some below directories that do not exist yet, ends with
\* exactly those k files holding the plan's contents, their directories
\* created, and the log holding their k Create entries in plan order, the
\* reversal of each able to resolve; it can only fail for a storage call
\* that was refused
C20_CreateEndToEnd ==
    /\ (OnEmptyRoot /\ gen.pc = "done") =>
         /\ DistinctFiles
         /\ gen.done = Len(gen.files)
         /\ operations = CreatedSoFar
         /\ \A j \in 1..Len(gen.files) :
              /\ fs[Join(gen.root, gen.files[j].path)] =
                   Utf8(gen.files[j].content)
              /\ DirExists(Dirname(Join(gen.root, gen.files[j].path)))
              /\ ReversalPossible(operations[j])
         /\ \A p \in Paths \ PlannedPaths : fs[p] = Absent
    /\ (OnEmptyRoot /\ gen.pc = "failed" /\ calls > 0 /\ DistinctFiles) =>
         gen.error = "IOError"

\* two files, the second below a directory that did not exist
C20_Witness ==
    /\ OnEmptyRoot
    /\ gen.pc = "done"
    /\ gen.root = "."
    /\ gen.files = << PlanEntry("a.txt", "create", "hello"),
                      PlanEntry("b/c.txt", "create", "world") >>
    /\ fs = [p \in Paths |-> IF p = "a.txt" THEN Utf8("hello")
                                            ELSE Utf8("world")]
    /\ dirs = {"b"}
    /\ operations = << FileCreateOperation("a.txt"),
                       FileCreateOperation("b/c.txt") >>

-----------------------------------------------------------------------------
(* updateFile and deleteFile on a missing path *)

\* caller t's step is the existence check of updateFile or deleteFile
ChecksExistence(t) ==
    /\ pc[t] \in {"uf_fileExists", "df_fileExists"}
    /\ pc'[t] # pc[t]

\* C21: when the existence check of updateFile or deleteFile finds no file
\* at the path, the call fails with NotFound in that step, storage is left
\* as it is and nothing is recorded in the log
C21_MissingPathIsNotFound ==
    [][ \A t \in Callers :
          (ChecksExistence(t) /\ ~FileExists(arg[t].path)) =>
            /\ pc'[t] = "idle"
            /\ result'[t] = "NotFound"
            /\ UNCHANGED <<fs, dirs, operations>> ]_vars

\* an updateFile or deleteFile on an empty folder has failed with NotFound
C21_Witness ==
    /\ result["panel"] = "NotFound"
    /\ pc["panel"] = "idle"
    /\ operations = << >>
    /\ fs = [p \in Paths |-> Absent]

-----------------------------------------------------------------------------
(* Update application: order, dispatch by action, abort at first failure *)

\* the steps of the mutator an action tag names
StepsOf(action) ==
    CASE action = "create" ->
           {"cf_ensureDirectory", "cf_createDirectory", "cf_fileExists",
            "cf_writeFile"}
      [] action = "update" -> {"uf_fileExists", "uf_readFile", "uf_writeFile"}
      [] action = "delete" -> {"df_fileExists", "df_readFile", "df_delete"}

\* the entries of the plan whose mutator has returned normally
Applied ==
    gen.done +
      (IF gen.pc = "dispatch" /\ pc["panel"] = "idle" /\ result["panel"] = "ok"
         THEN 1 ELSE 0)

RECURSIVE StorageAfter(_, _)
\* the files of the storage the use case started on after the first n
\* entries of the plan took effect
StorageAfter(store, n) ==
    IF n = 0
      THEN store
      ELSE LET before == StorageAfter(store, n - 1)
               file == gen.files[n]
           IN  [before EXCEPT ![Join(gen.root, file.path)] =
                  CASE file.action = "delete" -> Absent
                    [] file.action # "delete" /\ file.content = NoContent ->
                         Utf8("")
                    [] OTHER -> Utf8(file.content)]

\* C22: updateApplication takes the entries of the plan in plan order and
\* calls for each one the one mutator its action names, on the entry's
\* path under the project folder; the first entry whose mutator fails ends
\* the use case, with no call for any later entry; and as long as no undo
\* has run, the entries before it are in storage and in the log, one log
\* entry each, in plan order
C22_UpdateAppliesInOrder ==
    gen.useCase = "update" =>
      /\ gen.pc = "dispatch" =>
           /\ calls = gen.done + 1
           /\ pc["panel"] # "idle" =>
                /\ pc["panel"] \in StepsOf(Dispatched.action)
                /\ arg["panel"].path = Join(gen.root, Dispatched.path)
      /\ (gen.pc = "failed" /\ calls > 0) =>
           /\ calls = gen.done + 1
           /\ gen.done < Len(gen.files)
           /\ pc["panel"] = "idle"
           /\ result["panel"] = gen.error
           /\ gen.error # "ok"
      /\ gen.pc = "done" => (gen.done = Len(gen.files) /\ calls = gen.done)
      /\ (NoUndoYet /\ gen.pc \in {"dispatch", "failed", "done"}) =>
           /\ Len(operations) = Applied
           /\ \A j \in 1..Applied :
                /\ operations[j].kind = gen.files[j].action
                /\ operations[j].path = Join(gen.root, gen.files[j].path)
           /\ fs = StorageAfter(gen.startFs, Applied)

\* the second entry of a two-entry plan failed after the first, an update
\* of a.txt, was applied and logged
C22_Witness ==
    /\ gen.useCase = "update"
    /\ gen.pc = "failed"
    /\ Len(gen.files) = 2
    /\ gen.files[1].action = "update"
    /\ gen.files[2].action = "delete"
    /\ gen.done = 1
    /\ calls = 2
    /\ Len(operations) = 1
    /\ operations[1].kind = "update"
    /\ NoUndoYet

-----------------------------------------------------------------------------
(* The count a successful create or update application reports *)

\* createdFiles.length, updatedFiles.length: the entries pushed so far
ReportedCount == gen.done

-----------------------------------------------------------------------------
(* The log's entries are immutable *)

\* C24: every step leaves the log as it is or changes it in one of three
\* ways, each of which keeps the remaining entries, with their paths and
\* captured bytes, in their order: one entry appended at the tail, the
\* oldest entry removed at the head as one is appended to a full log, or
\* the newest entry removed at the tail
C24_LogEntriesNeverChange ==
    [][ \/ operations' = operations
        \/ /\ Len(operations) < maxHistorySize
           /\ Len(operations') = Len(operations) + 1
           /\ Front(operations') = operations
        \/ /\ Len(operations) = maxHistorySize
           /\ Len(operations') = maxHistorySize
           /\ Front(operations') = Tail(operations)
        \/ /\ operations # <<>>
           /\ operations' = Front(operations)
      ]_vars

\* two mutator calls took the log past its capacity, evicting the oldest
\* entry, and two undo commands then removed both of their entries
C24_Witness ==
    /\ calls = 2
    /\ Len(operations) = maxHistorySize - 2
    /\ operations = SubSeq(history, 2, maxHistorySize - 1)
    /\ pendingUndo = <<>>
    /\ notification = UndoneSuccessfully

-----------------------------------------------------------------------------
(* Flat-plan extraction: json fence, untagged fence, raw text *)

HasFence(text, tag) ==
    \E i \in 1..Len(text) : text[i].kind = "fence" /\ text[i].tag = tag

\* the step ends the use case with MalformedResponse and nothing else
FailsMalformed ==
    /\ gen' = [gen EXCEPT !.pc = "failed", !.error = "MalformedResponse"]
    /\ UNCHANGED <<fs, dirs, operations, calls>>

\* the step goes on with the given plan
YieldsPlan(plan) ==
    gen' = [gen EXCEPT !.pc = "ensureRoot", !.files = plan]

\* the step is that of parsing the given body directly
ParsedAs(body) ==
    IF body.syntax = "json" THEN YieldsPlan(body.value) ELSE FailsMalformed

\* C25: when the flat request settles with a response text, a JSON text
\* wrapped in a json fence gives the plan that parsing that JSON gives, also
\* when an untagged fence stands before it; without a json fence the inside
\* of the untagged fence is parsed; without any fence the response is
\* parsed as it is; and whenever the part so chosen is not valid JSON the
\* use case fails with MalformedResponse
C25_FlatExtractionChain ==
    [][ gen.pc = "flat" =>
        \A text \in FlatTexts(gen.root) :
          FlatResponseText(text) =>
            /\ (/\ Len(text) = 2
                /\ text[1] \in {Bare(NotJson), Fence("", NotJson)}
                /\ text[2].kind = "fence"
                /\ text[2].tag = "json"
                /\ text[2].body.syntax = "json") => ParsedAs(text[2].body)
            /\ (/\ ~HasFence(text, "json")
                /\ Len(text) = 2
                /\ text[1] = Bare(NotJson)
                /\ text[2].kind = "fence"
                /\ text[2].tag = "") => ParsedAs(text[2].body)
            /\ ~(HasFence(text, "json") \/ HasFence(text, "")) =>
                 IF Len(text) = 1 /\ text[1].kind = "bare"
                   THEN ParsedAs(text[1].body)
                   ELSE FailsMalformed
            /\ text = << Fence("json", NotJson) >> => FailsMalformed
      ]_vars

\* a flat response went on with the one-entry plan its text holds
C25_Witness ==
    /\ gen.useCase = "create"
    /\ strategy = "flat"
    /\ gen.pc = "ensureRoot"
    /\ gen.files = << PlanEntry("a.txt", "create", "hello") >>
    /\ attempts = 1
    /\ outstanding = {}

-----------------------------------------------------------------------------
(* ensureDirectory *)

\* the step is the stat of an ensureDirectory(d) call by caller t
StatsDirectory(t, d) ==
    /\ pc[t] = "cf_ensureDirectory"
    /\ pc'[t] # pc[t]
    /\ d = Dirname(arg[t].path)

\* the step is the stat of generateApplication's ensureDirectory(d)
StatsRoot(d) ==
    /\ gen.pc = "ensureRoot"
    /\ gen'.pc # "ensureRoot"
    /\ d = gen.root

\* the step is the createDirectory of an ensureDirectory(d) call by t
MakesDirectory(t, d) ==
    /\ pc[t] = "cf_createDirectory"
    /\ pc'[t] # pc[t]
    /\ d = Dirname(arg[t].path)

\* the step is the createDirectory of generateApplication's call
MakesRoot(d) ==
    /\ gen.pc = "createRoot"
    /\ gen'.pc # "createRoot"
    /\ d = gen.root

\* C26: the stat of ensureDirectory changes nothing, and on an existing
\* directory it is the whole call: no createDirectory follows; its
\* createDirectory adds at most that directory and, when the call returns
\* normally, the directory exists; neither step writes a file or records a
\* log entry, and no step ever removes a directory, so that a second call
\* finds the directory and does nothing
C26_EnsureDirectoryIdempotent ==
    [][ /\ dirs \subseteq dirs'
        /\ \A d \in {".", "b"} :
             /\ \A t \in Callers :
                  /\ StatsDirectory(t, d) =>
                       /\ UNCHANGED <<fs, dirs, operations>>
                       /\ DirExists(d) => pc'[t] = "cf_fileExists"
                  /\ MakesDirectory(t, d) =>
                       /\ UNCHANGED <<fs, operations>>
                       /\ dirs' \in {dirs, dirs \cup {d}}
                       /\ pc'[t] = "cf_fileExists" => d \in dirs'
             /\ StatsRoot(d) =>
                  /\ UNCHANGED <<fs, dirs, operations>>
                  /\ DirExists(d) => gen'.pc \in {"dispatch", "done"}
             /\ MakesRoot(d) =>
                  /\ UNCHANGED <<fs, operations>>
                  /\ dirs' \in {dirs, dirs \cup {d}}
                  /\ gen'.pc \in {"dispatch", "done"} => d \in dirs'
      ]_vars

\* generateApplication on an empty folder made the project folder b, and
\* createFile's ensureDirectory on b then went on without creating it
C26_Witness ==
    /\ gen.useCase = "create"
    /\ gen.root = "b"
    /\ gen.startFs = [p \in Paths |-> Absent]
    /\ dirs = {"b"}
    /\ calls = 1
    /\ pc["panel"] = "cf_fileExists"
    /\ arg["panel"].path = "b/c.txt"
    /\ operations = << >>

-----------------------------------------------------------------------------
(* No cancellation of a running create or update application *)

Finished == gen.pc \in {"done", "failed"}

ErrorKinds ==
    {"NotConfigured", "ServiceError", "MalformedResponse", "PlanningFailed",
     "AnalysisFailed",
     "IOError", "AlreadyExists", "NotFound"}

\* the step in which the panel is disposed
Disposes == gen.cancelledAt = "never" /\ gen'.cancelledAt # "never"

\* C27: a create or update application that has started reaches success or
\* failure, provided every awaited completion and storage call settles;
\* the 'cancel' message or the closing of the panel while it runs changes
\* nothing of the use case, its requests, its mutator call, storage or the
\* log, and after it the use case still ends only with every entry of its
\* plan dispatched (and, for the chunked approach, every per-file request
\* made) or with one of the failures of its calls
C27_NoCancellation ==
    /\ (Running ~> Finished)
    /\ [][ Disposes =>
             /\ gen' = [gen EXCEPT !.cancelledAt = gen.pc]
             /\ UNCHANGED <<fs, dirs, operations, pc, arg, existingContent,
                            result, calls, attempts, sent, outstanding,
                            config, openai>> ]_vars
    /\ [](gen.cancelledAt # "never" =>
            /\ gen.pc = "failed" =>
                 /\ gen.error \in ErrorKinds
                 /\ calls > 0 => result["panel"] = gen.error
            /\ gen.pc = "done" =>
                 /\ gen.done = Len(gen.files)
                 /\ calls = Len(gen.files)
                 /\ (gen.useCase = "create" /\ strategy = "chunked") =>
                      attempts = Len(gen.files) + 1)

\* the panel was disposed while the structure request was awaited; both
\* per-file requests and both createFile calls were made after that
C27_Witness ==
    /\ gen.cancelledAt = "structure"
    /\ gen.pc = "done"
    /\ attempts = 3
    /\ calls = 2
    /\ Len(operations) = 2

-----------------------------------------------------------------------------
(* generateFunction *)

\* C28 as stated: a generateFunction that has ended made exactly one
\* completion call, and storage and the log are as they were
C28_ExactlyOneCall ==
    (gen.useCase = "function" /\ Finished) =>
      /\ attempts = 1
      /\ fs = gen.startFs
      /\ operations = << >>

\* C28: generateFunction makes at most one completion call: none when it
\* ends with NotConfigured, which it does before calling, and exactly one
\* in every other outcome; no step from its start on touches a file, a
\* directory, the log or a mutator; and a response text is returned as the
\* inside of its fence when it has one and as it is otherwise, never
\* parsed, so that the only failures are NotConfigured and ServiceError
C28_FunctionOneCallNoEffect ==
    /\ [][ /\ gen'.useCase = "function" =>
                UNCHANGED <<fs, dirs, operations, pendingUndo, pc, arg,
                            result, calls>>
           /\ \A text \in FileResponses :
                (gen.useCase = "function" /\ CodeResponse("text", text)) =>
                  /\ gen'.pc = "done"
                  /\ gen'.code = IF text = "'''js\nhello\n'''"
                                   THEN "hello" ELSE text
       ]_vars
    /\ [](gen.useCase = "function" =>
            /\ attempts <= 1
            /\ sent = attempts
            /\ fs = gen.startFs
            /\ operations = << >>
            /\ Finished => (attempts = 0 <=> gen.error = "NotConfigured")
            /\ gen.error \in {"none", "NotConfigured", "ServiceError"})

\* generateFunction has returned the inside of the fence of the one
\* response it asked for
C28_Witness ==
    /\ gen.useCase = "function"
    /\ gen.pc = "done"
    /\ gen.code = "hello"
    /\ attempts = 1
    /\ sent = 1
    /\ calls = 0

-----------------------------------------------------------------------------
(* Plan production comes before every storage mutation *)

\* the use case ended before it had a plan
PlanFailed ==
    /\ gen.pc = "failed"
    /\ gen.error \in {"NotConfigured", "ServiceError", "MalformedResponse",
                      "PlanningFailed", "AnalysisFailed"}

\* the use case has its plan: it ensures the project folder or applies
\* entries, or has ended doing so
Applying ==
    \/ gen.pc \in {"ensureRoot", "createRoot", "dispatch", "done"}
    \/ gen.pc = "failed" /\ ~PlanFailed

\* C29: in generateApplication and updateApplication no step that leaves
\* the use case still producing its plan, or failed at producing it,
\* touches a file, a directory, the log or a mutator, so that storage and
\* the log are then as they were when the use case started; and once the
\* first storage call is under way no completion call is outstanding and
\* none is made any more
C29_PlanBeforeMutation ==
    /\ [][ /\ (gen'.useCase \in {"create", "update"}
                 /\ (Planning' \/ PlanFailed')) =>
                UNCHANGED <<fs, dirs, operations, pendingUndo, pc, arg,
                            result, calls>>
           /\ (gen.useCase \in {"create", "update"} /\ Applying) =>
                UNCHANGED <<attempts, sent, outstanding>>
       ]_vars
    /\ [](gen.useCase \in {"create", "update"} =>
            /\ (Planning \/ PlanFailed) =>
                 /\ fs = gen.startFs
                 /\ operations = << >>
                 /\ calls = 0
            /\ Applying => outstanding = {})

\* an update application whose plan response did not parse has failed on a
\* populated project folder, which is as it was
C29_Witness ==
    /\ gen.useCase = "update"
    /\ gen.pc = "failed"
    /\ gen.error = "MalformedResponse"
    /\ attempts = 1
    /\ fs = [p \in Paths |-> Utf8("world")]
    /\ dirs = {"b"}
    /\ operations = << >>
    /\ calls = 0

-----------------------------------------------------------------------------
(* The chunked approach: failure of the structure request *)

\* the chunked approach has got no response to its structure request
NoStructureResponse ==
    /\ gen.useCase = "create"
    /\ strategy = "chunked"
    /\ gen.bracket = "unset"

\* C30: as long as the chunked approach has no response to its structure
\* request it either still awaits it or has failed with the service's
\* error: it has no plan and no placeholder, the structure request is the
\* only completion call made, no createFile was called, and storage and
\* the log are as they were at the start
C30_StructureFailureAborts ==
    NoStructureResponse =>
      /\ gen.pc \in {"structure", "failed"}
      /\ gen.pc = "failed" => gen.error = "ServiceError"
      /\ gen.pc = "structure" => gen.error = "none"
      /\ gen.filePaths = << >>
      /\ gen.files = << >>
      /\ gen.threw = {}
      /\ attempts = 1
      /\ sent = 1
      /\ calls = 0
      /\ pc["panel"] = "idle"
      /\ fs = gen.startFs
      /\ operations = << >>

\* the structure request of the chunked approach was rejected and the use
\* case has failed
C30_Witness ==
    /\ NoStructureResponse
    /\ gen.pc = "failed"
    /\ gen.error = "ServiceError"
    /\ attempts = 1
    /\ outstanding = {}
    /\ fs = [p \in Paths |-> Absent]
    /\ dirs = {}

-----------------------------------------------------------------------------
(* k mutator calls, then k undos *)

\* C31: when k successful mutator calls made one after another are
\* followed by k undo commands, on a storage nothing else writes to, each
\* call has left one entry, no reversal is rejected, and once the k-th undo
\* has emptied the log and every reversal has settled every file path is
\* absent or holds the bytes it held before the first call (directories
\* made by createFile may remain)
C31_UndoAllRestoresFiles ==
    /\ reversalOutcome # "rejected"
    /\ (NoUndoStarted /\ pc["panel"] = "idle") => Len(operations) = calls
    /\ (pc["panel"] = "idle" /\ operations = <<>> /\ pendingUndo = <<>>) =>
         fs = gen.startFs

-----------------------------------------------------------------------------
(* An entry is reversed at most once *)

\* C32: a reversal is started only by the undo() that takes the entry off
\* the end of the log, in the step that takes it off; an undo() started
\* while another's reversal is pending therefore takes the entry before
\* it; and when a reversal settles its entry leaves the reversals in
\* flight without going back to the log, so no entry can be taken twice
C32_EntryReversedAtMostOnce ==
    [][ /\ Len(pendingUndo') <= Len(pendingUndo) + 1
        /\ UndoPops =>
             /\ operations # <<>>
             /\ operations' = Front(operations)
             /\ pendingUndo' = Append(pendingUndo, Last(operations))
        /\ ReversalSettles =>
             /\ operations' = operations
             /\ \E i \in 1..Len(pendingUndo) :
                  pendingUndo' = RemoveAt(pendingUndo, i)
        /\ Len(pendingUndo') = Len(pendingUndo) => pendingUndo' = pendingUndo
      ]_vars

\* two undo commands overlap: the second has taken the first call's entry
\* while the reversal of the second call's entry is pending
C32_Witness ==
    /\ calls = 2
    /\ operations = <<>>
    /\ Len(pendingUndo) = 2
    /\ pendingUndo[1].kind = "update"
    /\ pendingUndo[2].kind = "create"
    /\ \A t \in Callers : pc[t] = "idle"

-----------------------------------------------------------------------------
(* Overlapping undos and the order of their reversals *)

\* C33: with every entry recorded before the first undo, the reversals in
\* flight settle in the order in which they were started, the reversal of
\* the later-recorded entry first; and once all have settled and the log
\* is empty every path is as it was before the first call
C33_ReversalsSettleInOrder ==
    /\ [][ ReversalSettles => pendingUndo' = Tail(pendingUndo) ]_vars
    /\ []((pc["panel"] = "idle" /\ operations = <<>> /\ pendingUndo = <<>>)
            => fs = gen.startFs)

-----------------------------------------------------------------------------
(* An undo never appends to the log *)

\* C34: the step of an undo() on a non-empty log leaves the log one entry
\* shorter, its last entry gone, and the step in which that entry's
\* reversal settles, resolved or rejected, leaves the log as it is: the
\* reversal's write or delete records nothing and the entry is not put
\* back; the log grows only in the step in which a mutator call returns
\* normally
C34_UndoNeverAppends ==
    [][ /\ (operations # <<>> /\ UndoCommand) =>
             /\ Len(operations') = Len(operations) - 1
             /\ operations' = Front(operations)
        /\ ReversalSettles =>
             /\ reversalOutcome' \in {"resolved", "rejected"}
             /\ operations' = operations
        /\ Len(operations') > Len(operations) =>
             \E t \in Callers : Succeeds(t)
      ]_vars

\* the one entry recorded was popped by an undo whose reversal was
\* rejected: the log stays empty
C34_Witness ==
    /\ calls = 1
    /\ result["panel"] = "ok"
    /\ operations = <<>>
    /\ pendingUndo = <<>>
    /\ reversalOutcome = "rejected"
    /\ notification = UndoFailed

-----------------------------------------------------------------------------
(* The apiKey removed while the files of a chunked plan are generated *)

\* the step in which the apiKey setting is emptied while a per-file call is
\* awaited
RemovedInFilePhase ==
    gen.useCase = "create" /\ gen.pc = "content" /\ openai /\ ~openai'

\* the step in which the awaited per-file call settles with no client left
SettlesWithoutClient ==
    gen.pc = "content" /\ ~openai /\ gen'.files # gen.files

\* the first per-file call reached the service and a later one threw for
\* the missing client: the apiKey was emptied during the per-file calls
LostInFilePhase ==
    /\ gen.useCase = "create"
    /\ gen.pc # "content"
    /\ Len(gen.files) >= 2
    /\ gen.files[1].content # Placeholder(NotInitialized)
    /\ \E j \in 2..Len(gen.files) :
         gen.files[j].content = Placeholder(NotInitialized)

\* every plan entry is a file in storage holding the entry's content
AllCreated ==
    /\ gen.done = Len(gen.files)
    /\ \A j \in 1..Len(gen.files) :
         /\ Join(gen.root, gen.files[j].path) \in Paths
         /\ fs[Join(gen.root, gen.files[j].path)] = Utf8(gen.files[j].content)

\* C35 as stated: once the apiKey was emptied during the per-file calls of
\* generateApplication, the use case does not fail, and when it has ended
\* all N entries of the plan, placeholders included, are files in storage
\* (no undo command having been run)
C35_RemovalEndsInSuccess ==
    (LostInFilePhase /\ NoUndoYet) =>
      /\ gen.pc # "failed"
      /\ gen.pc = "done" => AllCreated

\* C35: emptying the apiKey during the per-file calls leaves the use case
\* as it stands; when the awaited call then settles, every remaining path
\* gets the placeholder of the missing client in that step, N entries in
\* all, and the use case goes on to ensureDirectory(projectPath) with no
\* further request; after that it fails only with the error of a storage
\* call or of a createFile (a path that is already a file, or named twice),
\* and when it ends in success all N entries, placeholders included, are
\* files in storage (no undo command having been run)
C35_RemovalFillsPlaceholders ==
    /\ [][ /\ RemovedInFilePhase => gen' = gen
           /\ SettlesWithoutClient =>
                /\ gen'.pc = "ensureRoot"
                /\ gen'.error = "none"
                /\ Len(gen'.files) = Len(gen.filePaths)
                /\ \A j \in 1..Len(gen.filePaths) :
                     /\ gen'.files[j].path = gen.filePaths[j]
                     /\ j > Len(gen.files) + 1 =>
                          gen'.files[j].content = Placeholder(NotInitialized)
                /\ sent' = sent
                /\ outstanding' = {} ]_vars
    /\ [](LostInFilePhase =>
            /\ gen.pc = "failed" =>
                 /\ gen.error \in {"IOError", "AlreadyExists"}
                 /\ gen.done < Len(gen.files)
            /\ (gen.pc = "done" /\ NoUndoYet) => AllCreated)

\* the apiKey was emptied while the call of a.txt was awaited; b/c.txt got
\* the placeholder, both files were created and the use case reported 2
C35_Witness ==
    /\ gen.useCase = "create"
    /\ gen.pc = "done"
    /\ config.apiKey = ""
    /\ gen.root = "."
    /\ gen.done = 2
    /\ gen.files = << PlanEntry("a.txt", "create", "world"),
                      PlanEntry("b/c.txt", "create",
                                Placeholder(NotInitialized)) >>
    /\ fs["a.txt"] = Utf8("world")
    /\ fs["b/c.txt"] = Utf8(Placeholder(NotInitialized))
    /\ Len(operations) = 2

-----------------------------------------------------------------------------
(* generateComponent *)

\* the targetPath generateComponent was called with
Target == gen.files[1].path

\* generateComponent got past _checkApiKey
ComponentRuns ==
    gen.useCase = "component" /\ gen.error # "NotConfigured"

\* C36: generateComponent sends its one completion request before anything
\* looks at the target path: while the code is awaited no mutator call has
\* been made and storage and log are untouched, and createFile is called
\* once, in the step in which the code arrives, with the target path and
\* the code.  When it ends in success, exactly one file has been created,
\* the target, holding the code, and the log holds exactly its Create entry
\* (no undo command having been run).  When the target was a file already,
\* it cannot end in success: createFile fails with AlreadyExists after the
\* one completion call was made, and the files and the log stay as they
\* were at the start
C36_ComponentCallsThenCreates ==
    /\ [][ (gen.useCase = "component" /\ calls' # calls) =>
             /\ gen.pc = "code"
             /\ sent = 1
             /\ calls' = 1
             /\ pc'["command"] = "cf_ensureDirectory"
             /\ arg'["command"] = [path |-> Target, content |-> gen'.code]
         ]_vars
    /\ [](ComponentRuns =>
            /\ attempts = 1 /\ sent = 1
            /\ calls <= 1
            /\ gen.pc = "code" =>
                 /\ calls = 0
                 /\ pc["command"] = "idle"
                 /\ fs = gen.startFs
                 /\ operations = << >>
            /\ (gen.pc = "done" /\ NoUndoYet) =>
                 /\ calls = 1
                 /\ gen.startFs[Target] = Absent
                 /\ fs = [gen.startFs EXCEPT ![Target] = Utf8(gen.code)]
                 /\ operations = << FileCreateOperation(Target) >>
            /\ gen.startFs[Target] # Absent =>
                 /\ gen.pc # "done"
                 /\ gen.pc = "failed" =>
                      gen.error \in {"ServiceError", "AlreadyExists"}
                 /\ gen.error = "AlreadyExists" => calls = 1
                 /\ fs = gen.startFs
                 /\ operations = << >>)

\* generateComponent was given the path of an existing file: the code was
\* asked for and received, createFile refused, file and log are as before
C36_Witness ==
    /\ gen.useCase = "component"
    /\ gen.pc = "failed"
    /\ gen.error = "AlreadyExists"
    /\ Target = "b/c.txt"
    /\ gen.code = "hello"
    /\ attempts = 1
    /\ sent = 1
    /\ calls = 1
    /\ fs = [p \in Paths |-> Utf8("world")]
    /\ operations = << >>

-----------------------------------------------------------------------------
(* The settings changing at any time: before a use case is started, while   *)
(* its code is awaited, after it has ended                                   *)

\* the extension as installed, no apiKey set, on an empty or on a populated
\* folder
InitSettings ==
    /\ EmptyStorage \/ PopulatedStorage
    /\ InitLog /\ InitCallers /\ InitRecorder /\ InitPlanner
    /\ config = DefaultConfig
    /\ openai = ClientFor(config)
    /\ gen = NoGen
    /\ attempts = 0
    /\ sent = 0
    /\ outstanding = {}

SettingsNext ==
    \/ \E cfg \in Configs : ConfigChange(cfg)
    \/ \E p \in Paths : GenerateCode("component", p)
    \/ GenerateCode("function", "none")
    \/ \E kind \in CodeResponseKinds, text \in FileResponses :
         CodeResponse(kind, text)
    \/ ComponentFileSettles
    \/ CfEnsureDirectory("command")
    \/ CfCreateDirectory("command")
    \/ CfFileExists("command")
    \/ CfWriteFile("command")

SpecSettings == InitSettings /\ [][SettingsNext]_vars

\* the step is an onDidChangeConfiguration event for the fintonlabs settings
SettingsChange == config' # config

\* the step starts a use case
UseCaseStarts == gen.useCase = "none" /\ gen'.useCase # "none"

\* C37: in every state, after any number of settings changes, there is a
\* client exactly when the apiKey setting as last changed is not empty; each
\* change makes it so in its own step, whatever the client was before; and
\* a use case started afterwards sends its request when the apiKey is set
\* and fails with NotConfigured, sending nothing, when it is empty
C37_ClientFollowsCredential ==
    /\ [](openai <=> config.apiKey # "")
    /\ [][ /\ SettingsChange => (openai' <=> config'.apiKey # "")
           /\ UseCaseStarts =>
                /\ config.apiKey # "" =>
                     /\ gen'.pc = "code"
                     /\ sent' = sent + 1
                /\ config.apiKey = "" =>
                     /\ gen'.pc = "failed"
                     /\ gen'.error = "NotConfigured"
                     /\ sent' = sent
         ]_vars

\* the apiKey was set and cleared again, the second time while the code of
\* a function was awaited: no client is left, the request sent earlier has
\* been answered
C37_Witness ==
    /\ config.apiKey = ""
    /\ ~openai
    /\ gen.useCase = "function"
    /\ gen.pc = "done"
    /\ sent = 1

=============================================================================
